---- MODULE Spec2Model ----
(***************************************************************************)
(* ToolMaker: the language-model accounting (toolmaker/llm), the agent     *)
(* loop (toolmaker/agent) and the tool-synthesis pipeline                  *)
(* (toolmaker/tasks/make_tool.py), as state machines.                      *)
(*                                                                         *)
(*   SpecLLM    a sequence of LLM.completion calls on one LLM instance     *)
(*   SpecAgent  one Agent.run call                                         *)
(*   Spec       one make_tool call                                         *)
(*                                                                         *)
(* Money is counted in whole units (MAX_COST units is the ceiling).        *)
(***************************************************************************)
EXTENDS Integers, Sequences, FiniteSets, TLC

VARIABLES
    \* ---- LLM instance (toolmaker/llm/__init__.py) ----
    tokens,             \* LLM.tokens : model -> Usage
    cost,               \* LLM.cost   : model -> accumulated completion cost
    providerCalls,      \* number of calls handed to the completion provider
    llm_last,           \* the last LLM.completion call: its inputs and outcome
    \* ---- agent loop / pipeline ----
    pc,                 \* position of the running function
    state,              \* the AgentState held by the running function
    steps,              \* Agent.run: steps taken in the current run
    max_steps,          \* Agent.run: its max_steps argument
    modelCalls,         \* Agent.run: calls of self.completion in the current run
    runtime,            \* the sandbox client: generation, requests since reset, stop calls
    error,              \* the exception that ended the running function ("None" if none)
    last_step,          \* the last Agent.step: the provider message and how the step ended
    \* ---- make_tool ----
    phase,              \* the pipeline phase executed last
    iteration,          \* make_tool: loop variable
    max_iterations,     \* make_tool: its max_iterations argument
    state_checkpoint,   \* make_tool: the state kept after IMPLEMENT
    code,               \* make_tool: the current candidate
    problem_summaries,  \* make_tool: summaries of the previous attempts
    function,           \* make_tool: the FunctionCall executed last
    output,             \* make_tool: the FunctionCallResult of the last execution
    assessment,         \* make_tool: the last assessment, and whether a model call made it
    result,             \* make_tool: the returned FunctionCall (None if none)
    counts,             \* how often each phase has been entered
    unsuccessful,       \* how many executions have been assessed unsuccessful
    model_call,         \* the phase and iteration of the last LLM.completion call
    \* ---- AgentState objects (toolmaker/agent/state.py) ----
    heap,               \* the AgentState objects created so far, by identity
    receiver,           \* the object a caller holds as `state`
    checkpoint_ref,     \* the object a caller holds as `state_checkpoint`
    checkpoint_value,   \* the fields of the checkpoint when it was taken
    \* ---- truncate_observation (toolmaker/actions/actions.py) ----
    observation_arg,    \* the observation passed in
    max_length_arg,     \* the max_length passed in
    truncated_observation,  \* the observation returned
    \* ---- the action registry (toolmaker/actions/actions.py) ----
    registry,           \* the ACTIONS dict: kind tag -> descriptor
    registered,         \* the descriptors passed to register_action, in call order
    \* ---- the sandbox over HTTP (toolmaker/runtime/client.py, server.py) ----
    http_request,       \* the client call in progress: endpoint, action kind, counts
    http_response,      \* the HTTP response of the server
    returned,           \* what the client call returned or raised
    process,            \* the last run of the function runner
    output_file,        \* the output file of the function runner, on the server
    \* ---- the request lock of the server (toolmaker/runtime/api.py) ----
    locked,             \* Lock: whether the lock is held
    waiters,            \* Lock: the requests waiting for it, in order
    arrivals,           \* each request: its endpoint and the position of its coroutine
    log,                \* the handler starts and finishes, in order
    \* ---- run_bash_command (toolmaker/utils/bash.py) ----
    bash,               \* one call: the process, the pipe, the screen, the result
    \* ---- substitute_env_vars (toolmaker/utils/env.py, runtime/code.py) ----
    envs,               \* one call: its arguments and what it returned or transmitted
    \* ---- install_repository (toolmaker/tasks/install.py) ----
    install,            \* one call: the repository, the agent's answer, the outcome
    \* ---- the retry around litellm.completion (toolmaker/llm/completions.py) ----
    retries,            \* one call: the model, the attempts made, the outcome
    \* ---- one call inside Agent.step (toolmaker/agent/agent.py) ----
    acting,             \* the action, what the sandbox returned, what was appended
    \* ---- AgentState.bash() (toolmaker/agent/state.py, cli.py) ----
    rendering,          \* an audit trail and the install script written from it
    \* ---- run_tool (toolmaker/run.py) ----
    caching             \* one tool folder and the calls made on it

llmVars   == <<tokens, cost, providerCalls, llm_last>>
agentVars == <<pc, state, steps, max_steps, modelCalls, runtime, error, last_step>>
toolVars  == <<phase, iteration, max_iterations, state_checkpoint, code,
               problem_summaries, function, output, assessment, result, counts,
               unsuccessful, model_call>>
heapVars  == <<heap, receiver, checkpoint_ref, checkpoint_value>>
truncVars == <<observation_arg, max_length_arg, truncated_observation>>
registryVars == <<registry, registered>>
runtimeVars == <<http_request, http_response, returned, process, output_file>>
lockVars  == <<locked, waiters, arrivals, log>>
baseLibVars == <<heapVars, truncVars, registryVars, runtimeVars, lockVars>>
extVars   == <<bash, envs>>
moreVars  == <<install, retries>>
lastVars  == <<acting, rendering, caching>>
restOf_acting == <<rendering, caching>>
restOf_rendering == <<acting, caching>>
restOf_caching == <<acting, rendering>>
libVars   == <<baseLibVars, extVars, moreVars, lastVars>>
vars      == <<llmVars, agentVars, toolVars, libVars>>

(***************************************************************************)
(* Bounds of the model.                                                    *)
(***************************************************************************)
MaxLLMCalls    == 4     \* SpecLLM: completion calls on one LLM instance
MaxSteps       == 2     \* SpecAgent: largest max_steps argument
MaxCalls       == 2     \* SpecAgent: tool calls requested by one model message
MaxIterations  == 2     \* Spec: largest max_iterations argument
RunMaxSteps    == 2     \* Spec: step budget of the agent runs inside make_tool
MaxObjects     == 4     \* SpecState: AgentState objects created
MaxContent     == 4     \* SpecTruncate: longest string content
MaxLength      == 4     \* SpecTruncate: largest max_length argument
MaxRegistered  == 4     \* SpecRegistry: register_action calls
MaxRequests    == 2     \* client calls in one behaviour
MaxArrivals    == 3     \* SpecLock: requests arriving at the server
MaxOutput      == 3     \* SpecBash: characters a command writes of its own
BlockSize      == 2     \* SpecBash: the block_size argument
ScreenWidth    == 2     \* SpecBash: the screen_width argument
ScreenHeight   == 2     \* SpecBash: the screen_height argument
MaxPieces      == 2     \* SpecEnv: pieces of the string substituted
MaxName        == 3     \* SpecInstall: characters of a repository name
MaxPath        == 5     \* SpecInstall: characters of the path the agent reports
MaxAttempts    == 5     \* SpecRetry: attempts followed in one call
MaxPathTokens  == 3     \* SpecStepCall: characters of the path a ReadFile names
MaxTrail       == 2     \* SpecRender: pairs of the audit trail
MaxArgument    == 2     \* SpecRender: characters of the argument of an action

(***************************************************************************)
(* Values.                                                                 *)
(***************************************************************************)
\* Python's None, as a datum.
None == [kind |-> "None", iter |-> -1]

\* A datum produced by a phase: what it is and the iteration that made it
\* (-1: made before the repair loop).
Datum(kind, iter) == [kind |-> kind, iter |-> iter]

(***************************************************************************)
(* LLM (toolmaker/llm/__init__.py).                                        *)
(***************************************************************************)
MAX_COST == 5

LLM_MODEL           == "gpt-4o"
LLM_MODEL_REASONING == "o1-mini"
Models == {LLM_MODEL, LLM_MODEL_REASONING}

Usage(p, c, t) == [prompt_tokens |-> p, completion_tokens |-> c, total_tokens |-> t]

add(self, other) ==
    Usage(self.prompt_tokens + other.prompt_tokens,
          self.completion_tokens + other.completion_tokens,
          self.total_tokens + other.total_tokens)

\* defaultdict(Usage) / defaultdict(float): a model never used reads as zero.
NoTokens == [m \in Models |-> Usage(0, 0, 0)]
NoCost   == [m \in Models |-> 0]

RECURSIVE SumOver(_, _)
SumOver(f, S) ==
    IF S = {} THEN 0
    ELSE LET m == CHOOSE x \in S : TRUE IN f[m] + SumOver(f, S \ {m})

total_cost(cs) == SumOver(cs, DOMAIN cs)

total_prompt_tokens(tk) == SumOver([m \in DOMAIN tk |-> tk[m].prompt_tokens], DOMAIN tk)

total_completion_tokens(tk) ==
    SumOver([m \in DOMAIN tk |-> tk[m].completion_tokens], DOMAIN tk)

\* A mutant of the cost check: no call is refused.
cost_limit_exceeded_never(prompt_cost, cs) == FALSE

\* A mutant of the cost check: the estimate of the next call is left out.
cost_limit_exceeded_ignoring_prompt(prompt_cost, cs) == total_cost(cs) > MAX_COST

\* `if prompt_cost + self.total_cost > MAX_COST: raise RuntimeError(...)`
cost_limit_exceeded(prompt_cost, cs) == prompt_cost + total_cost(cs) > MAX_COST

\* What the provider does with a dispatched call: it fails (an exception of
\* the completion function), or it answers with a cost and a usage; a typed
\* answer may fail to parse (pydantic ValidationError).
Provider(fails, completion_cost, usage, valid) ==
    [fails |-> fails, completion_cost |-> completion_cost, usage |-> usage, valid |-> valid]

\* LLM.completion on the accounting (tk, cs): the outcome, whether the
\* provider was called, and the accounting afterwards.
completion(tk, cs, model, prompt_cost, is_typed, prov) ==
    IF cost_limit_exceeded(prompt_cost, cs)
    THEN [outcome |-> "CostLimitExceeded", dispatched |-> FALSE, tokens |-> tk, cost |-> cs]
    ELSE IF prov.fails
    THEN [outcome |-> "ProviderError", dispatched |-> TRUE, tokens |-> tk, cost |-> cs]
    ELSE LET tk2 == [tk EXCEPT ![model] = add(@, prov.usage)]
             cs2 == [cs EXCEPT ![model] = @ + prov.completion_cost]
         IN  IF is_typed /\ ~prov.valid
             THEN [outcome |-> "ValidationError", dispatched |-> TRUE,
                   tokens |-> tk2, cost |-> cs2]
             ELSE [outcome |-> "ok", dispatched |-> TRUE, tokens |-> tk2, cost |-> cs2]

\* The record kept of a completion call.
LastCall(model, prompt_cost, total_before, r) ==
    [model |-> model, prompt_cost |-> prompt_cost, total_before |-> total_before,
     outcome |-> r.outcome, dispatched |-> r.dispatched]

NoCall == [model |-> "None", prompt_cost |-> 0, total_before |-> 0,
           outcome |-> "None", dispatched |-> FALSE]

\* The effect of one LLM.completion call on the LLM instance.
ApplyCompletion(model, prompt_cost, r) ==
    /\ tokens' = r.tokens
    /\ cost' = r.cost
    /\ providerCalls' = providerCalls + (IF r.dispatched THEN 1 ELSE 0)
    /\ llm_last' = LastCall(model, prompt_cost, total_cost(cost), r)

InitLLM ==
    /\ tokens = NoTokens
    /\ cost = NoCost
    /\ providerCalls = 0
    /\ llm_last = NoCall

\* One LLM.completion call with any model, estimate, response format and provider
\* behaviour.
LLMCompletion ==
    /\ pc = "llm"
    /\ providerCalls < MaxLLMCalls
    /\ \E model \in Models, prompt_cost \in {0, 1, 3}, is_typed \in BOOLEAN,
          fails \in BOOLEAN, completion_cost \in {0, 2}, valid \in BOOLEAN :
          LET prov == Provider(fails, completion_cost, Usage(1, 1, 2), valid)
              r == completion(tokens, cost, model, prompt_cost, is_typed, prov)
          IN  ApplyCompletion(model, prompt_cost, r)
    /\ UNCHANGED <<agentVars, toolVars, libVars>>

(***************************************************************************)
(* AgentState (toolmaker/agent/state.py): an immutable value; every        *)
(* method returns a new one.                                               *)
(***************************************************************************)
AgentState(response, actions, messages) ==
    [response |-> response, actions |-> actions, messages |-> messages]

append_message(self, message) ==
    AgentState(self.response, self.actions, Append(self.messages, message))

append_messages(self, messages) ==
    AgentState(self.response, self.actions, self.messages \o messages)

append_action(self, action, observation) ==
    AgentState(self.response, Append(self.actions, <<action, observation>>), self.messages)

reset_actions(self) == AgentState(self.response, <<>>, self.messages)

with_response(self, response) == AgentState(response, self.actions, self.messages)

\* The tool_calls field of a message: absent (Python None) or a list.
NoToolCalls == [present |-> FALSE, calls |-> <<>>]

ToolCalls(calls) == [present |-> TRUE, calls |-> calls]

\* The content of a message: a text, or the dump of an observation.
Text(t) == [kind |-> "text", of |-> t]

\* A chat message. refs: the data a prompt embeds.
Message(role, content, tool_calls, tool_call_id, refs) ==
    [role |-> role, content |-> content, tool_calls |-> tool_calls,
     tool_call_id |-> tool_call_id, refs |-> refs]

\* dict(role=..., content=...) with a prompt text.
Prompt(role, content, refs) == Message(role, Text(content), NoToolCalls, 0, refs)

(***************************************************************************)
(* Actions (toolmaker/actions).                                            *)
(***************************************************************************)
\* The registry after import of toolmaker.actions.
ActionRegistry == {"run_bash_command", "write_file", "read_file", "list_directory",
            "browse", "google_drive_list_folder", "google_drive_download_file"}

\* The registered actions whose bash_side_effect flag is set.
SideEffectActions == {"run_bash_command", "write_file", "google_drive_download_file"}

\* A tool call of a model message: its id, the tool it names and whether its
\* arguments satisfy the action's schema.
Call(id, name, args_ok) == [id |-> id, name |-> name, args_ok |-> args_ok]

\* What the sandbox answers to execute(action): the observation declared for
\* the action, or (status 500) a FunctionCallErrorObservation.
ObservationKinds == {"observation", "FunctionCallErrorObservation"}

Observation(kind, action) == [kind |-> kind, of |-> action]

(***************************************************************************)
(* Agent.step (toolmaker/agent/agent.py).                                  *)
(***************************************************************************)
\* A mutant of the clearing of the tool-call field: an empty list is kept.
cleared_tool_calls_keeping_empty_list(tool_calls) == tool_calls

\* `if not message.tool_calls: message.tool_calls = None`
cleared_tool_calls(tool_calls) ==
    IF ~tool_calls.present \/ tool_calls.calls = <<>> THEN NoToolCalls ELSE tool_calls

\* message.model_dump() appended as the assistant message.
AssistantMessage(tool_calls) == Message("assistant", Text("completion"), tool_calls, 0, {})

\* dict(role="tool", content=observation.model_dump_json(), tool_call_id=call.id)
ToolMessage(observation, id) == Message("tool", observation, NoToolCalls, id, {})

\* The loop over the requested calls, from call i on. A call that names no
\* action of the agent raises KeyError and one whose arguments violate the
\* schema raises pydantic's ValidationError: nothing in step or run catches
\* either. executed: the actions sent to the sandbox.
RECURSIVE step_calls(_, _, _, _, _)
step_calls(st, calls, obs, i, agent_actions) ==
    IF i > Len(calls)
    THEN [status |-> "ok", state |-> st, executed |-> <<>>]
    ELSE LET call == calls[i] IN
         IF call.name \notin agent_actions
         THEN [status |-> "KeyError", state |-> st, executed |-> <<>>]
         ELSE IF ~call.args_ok
         THEN [status |-> "ValidationError", state |-> st, executed |-> <<>>]
         ELSE LET observation == Observation(obs[i], call.name)
                  st2 == append_action(append_message(st, ToolMessage(observation, call.id)),
                                       call.name, observation)
                  rest == step_calls(st2, calls, obs, i + 1, agent_actions)
              IN  [rest EXCEPT !.executed = <<call.name>> \o @]

\* Agent.step on a provider message [tool_calls, parsed] and the sandbox's
\* answers obs.
step(st, message, obs, agent_actions) ==
    LET tool_calls == cleared_tool_calls(message.tool_calls)
        st1 == append_message(st, AssistantMessage(tool_calls))
        r == step_calls(st1, tool_calls.calls, obs, 1, agent_actions)
    IN  IF r.status = "ok"
        THEN [r EXCEPT !.state = with_response(r.state, message.parsed)]
        ELSE r

(***************************************************************************)
(* The sandbox client, as far as the callers see it.                       *)
(***************************************************************************)
\* A sandbox obtained by reset_runtime() (cli.py: load_checkpoint): its
\* generation, the requests sent to it so far, and the stop() calls on it.
Sandbox(generation) == [generation |-> generation, requests |-> <<>>, stops |-> 0]

\* The requests POSTed by execute(action) / run_function(function).
sent(rt, requests) == [rt EXCEPT !.requests = @ \o requests]

stop(rt) == [rt EXCEPT !.stops = @ + 1]

(***************************************************************************)
(* Agent.run (toolmaker/agent/agent.py).                                   *)
(***************************************************************************)
\* The tools a model message may name here: one registered action and one
\* that is not registered (find_files: its @register_action is commented out).
CallNames == {"read_file", "find_files"}

\* The parsed response of a model message that carries one.
Parsed == Datum("parsed", -1)

\* An id the provider has not used in the conversation st.
FreshId(st) == Len(st.messages) + 1

\* The tool-call lists a provider message may carry: up to maxCalls calls of the
\* tools in names, with fresh ids from id on.
CallLists(id, maxCalls, names) ==
    UNION { { [i \in 1..n |-> Call(id + i - 1, nm[i], ok[i])] :
                nm \in [1..n -> names], ok \in [1..n -> BOOLEAN] } : n \in 0..maxCalls }

\* The record kept of a step: the state it started from, the provider's
\* message, and how it ended.
LastStep(before, message, status) ==
    [before |-> before, message |-> message, status |-> status]

NoStep == LastStep(AgentState(None, <<>>, <<>>), [tool_calls |-> NoToolCalls, parsed |-> None], "None")

\* A mutant of the loop bound: one step too many.
steps_remain_off_by_one(n, limit) == n <= limit

\* `for step in range(max_steps)`
steps_remain(n, limit) == n < limit

\* A mutant of the return test: the run never returns early.
has_response_never(st) == FALSE

\* `if state.response is not None: return`
has_response(st) == st.response # None

\* `state = state.with_response(None)`
AgentRunBegin ==
    /\ pc = "agent_begin"
    /\ state' = with_response(state, None)
    /\ steps' = 0
    /\ pc' = "agent_loop"
    /\ UNCHANGED <<max_steps, modelCalls, runtime, error, last_step, libVars, llmVars, toolVars>>

\* One pass of the loop body: self.step(state, runtime), then the return test.
AgentRunStep ==
    /\ pc = "agent_loop"
    /\ steps_remain(steps, max_steps)
    /\ modelCalls' = modelCalls + 1
    /\ \E present \in BOOLEAN, calls \in CallLists(FreshId(state), MaxCalls, CallNames), parsed \in {None, Parsed} :
       \E obs \in [1..Len(calls) -> ObservationKinds] :
          LET message == [tool_calls |-> IF present THEN ToolCalls(calls) ELSE NoToolCalls,
                          parsed |-> parsed]
              r == step(state, message, obs, ActionRegistry)
          IN  /\ present \/ Len(calls) = 0
              /\ runtime' = sent(runtime, r.executed)
              /\ last_step' = LastStep(state, message, r.status)
              /\ IF r.status = "ok"
                 THEN /\ state' = r.state
                      /\ steps' = steps + 1
                      /\ pc' = IF has_response(r.state) THEN "returned" ELSE "agent_loop"
                      /\ error' = error
                 ELSE /\ pc' = "raised"
                      /\ error' = r.status
                      /\ UNCHANGED <<state, steps>>
    /\ UNCHANGED <<max_steps, libVars, llmVars, toolVars>>

\* self.completion raises (the cost ceiling, a provider failure, a response
\* that does not parse): the exception leaves step and run.
AgentRunCompletionRaises ==
    /\ pc = "agent_loop"
    /\ steps_remain(steps, max_steps)
    /\ modelCalls' = modelCalls + 1
    /\ pc' = "raised"
    /\ error' = "CompletionError"
    /\ UNCHANGED <<state, steps, max_steps, runtime, last_step, libVars, llmVars, toolVars>>

\* `raise AgentExhaustedError(...)` after the loop.
AgentRunExhausted ==
    /\ pc = "agent_loop"
    /\ ~steps_remain(steps, max_steps)
    /\ pc' = "raised"
    /\ error' = "AgentExhaustedError"
    /\ UNCHANGED <<state, steps, max_steps, modelCalls, runtime, last_step,
                   libVars, llmVars, toolVars>>

(***************************************************************************)
(* make_tool (toolmaker/tasks/make_tool.py) and its phases.                *)
(***************************************************************************)
Phases == {"EXPLORE", "PLAN", "IMPLEMENT", "CHECKPOINT", "EXECUTE", "ASSESS",
           "DIAGNOSE", "REWRITE", "SUMMARIZE"}

\* FunctionCall(name=definition.name, code=code, args=definition.example.arguments)
FunctionCall(c) == [kind |-> "FunctionCall", iter |-> c.iter, code |-> c]

\* FunctionCallResult: the status, and the iteration of the run.
FunctionCallResult(status, iter) == [kind |-> "output", iter |-> iter, status |-> status]

\* FunctionExecutionAssessment, with the iteration that made it.
FunctionExecutionAssessment(successful, iter) ==
    [kind |-> "assessment", iter |-> iter, successful |-> successful]

\* The data made by the phases.
ExplorationSummary == Datum("exploration", -1)
Plan               == Datum("plan", -1)
Code(iter)         == Datum("code", iter)
Diagnosis(iter)    == Datum("diagnosis", iter)
Summary(iter)      == Datum("summary", iter)

\* A phase is entered.
Enter(p) ==
    /\ phase' = p
    /\ counts' = [counts EXCEPT ![p] = @ + 1]

\* LLM.completion is called by phase p.
ModelCall(p) == [by |-> p, iter |-> iteration]

NoModelCall == [by |-> "None", iter |-> -1]

\* How a model call inside make_tool may end (LLM.completion): with a message,
\* or with the cost-limit error, a provider failure or, for a typed call, a
\* response that does not parse. The accounting that decides it is SpecLLM's.
LLMOutcomes(is_typed) ==
    {"ok", "CostLimitExceeded", "ProviderError"}
        \cup (IF is_typed THEN {"ValidationError"} ELSE {})

\* The tools a model message may name inside make_tool.
ToolNames == {"read_file", "write_file"}

\* The answers of the sandbox followed inside make_tool (SpecAgent follows the
\* error observations too).
SandboxAnswers == {"observation"}

\* The body of make_tool's try statement: an exception raised there passes
\* through the finally clause; one raised before it does not.
InTry(p) == p \in {"loop", "execute", "assess", "diagnose", "diagnose_loop",
                   "rewrite", "summarize"}

\* A mutant of the propagation: an exception raised inside the loop is
\* noted and the loop goes on with its next pass.
Raise_and_continue(err) ==
    /\ error' = err
    /\ pc' = IF InTry(pc) THEN "loop" ELSE "done"

\* An exception leaves the running phase.
Raise(err) ==
    /\ error' = err
    /\ pc' = IF InTry(pc) THEN "finally" ELSE "done"

\* completion_step(state >> prompt, llm[model]): the state after the exchange,
\* with the model's answer as its response.
completion_step(st, prompt, response) ==
    with_response(append_message(append_message(st, prompt),
                                 Message("assistant", Text("completion"), NoToolCalls, 0,
                                         {response})),
                  response)

\* A single-shot phase p of make_tool at `here`: one model call, then `next`.
\* keep: the caller takes only .response and keeps its own state.
SingleShot(here, p, is_typed, prompt, response, next, keep) ==
    /\ pc = here
    /\ Enter(p)
    /\ model_call' = ModelCall(p)
    /\ \E outcome \in LLMOutcomes(is_typed) :
          IF outcome = "ok"
          THEN /\ state' = IF keep THEN state ELSE completion_step(state, prompt, response)
               /\ pc' = next
               /\ error' = error
          ELSE /\ Raise(outcome)
               /\ state' = state
    /\ UNCHANGED <<libVars, llmVars, steps, max_steps, modelCalls, runtime, last_step>>

\* One pass of Agent.run's loop inside phase p of make_tool: a model call, the
\* step, the return test.
RunStep(here, p, is_typed, agent_actions, response, next) ==
    /\ pc = here
    /\ steps_remain(steps, max_steps)
    /\ model_call' = ModelCall(p)
    /\ \E outcome \in LLMOutcomes(is_typed), calls \in CallLists(FreshId(state), 1, ToolNames),
          parsed \in {None, response} :
       \E obs \in [1..Len(calls) -> SandboxAnswers] :
          LET message == [tool_calls |-> ToolCalls(calls), parsed |-> parsed]
              s == step(state, message, obs, agent_actions)
          IN  IF outcome # "ok"
              THEN /\ Raise(outcome)
                   /\ UNCHANGED <<state, steps, runtime>>
              ELSE /\ runtime' = sent(runtime, s.executed)
                   /\ IF s.status = "ok"
                      THEN /\ state' = s.state
                           /\ steps' = steps + 1
                           /\ pc' = IF has_response(s.state) THEN next ELSE here
                           /\ error' = error
                      ELSE /\ Raise(s.status)
                           /\ UNCHANGED <<state, steps>>
    /\ UNCHANGED <<libVars, llmVars, max_steps, modelCalls, last_step>>
    /\ UNCHANGED <<phase, iteration, max_iterations, state_checkpoint, code,
                   problem_summaries, function, output, assessment, result, counts,
                   unsuccessful>>

\* Agent.run's loop ends without a response.
RunExhausted(here) ==
    /\ pc = here
    /\ ~steps_remain(steps, max_steps)
    /\ Raise("AgentExhaustedError")
    /\ UNCHANGED <<libVars, llmVars, state, steps, max_steps, modelCalls, runtime, last_step, toolVars>>

\* A mutant of the loop bound of make_tool: one iteration too many.
iterations_remain_off_by_one(n, limit) == n <= limit

\* `for iteration in range(max_iterations)`
iterations_remain(n, limit) == n < limit

\* `runtime = reset_runtime()` (line 48).
LoadCheckpoint ==
    /\ pc = "make_tool"
    /\ runtime' = Sandbox(runtime.generation + 1)
    /\ pc' = "explore"
    /\ UNCHANGED <<libVars, llmVars, state, steps, max_steps, modelCalls, error, last_step, toolVars>>

\* EXPLORE begins: explore_repository builds the conversation and starts an
\* agent without the write_file action; Agent.run clears the response.
ExploreBegin ==
    /\ pc = "explore"
    /\ Enter("EXPLORE")
    /\ state' = with_response(
                    append_message(append_message(AgentState(None, <<>>, <<>>),
                                                  Prompt("system", "system", {})),
                                   Prompt("user", "explore", {})),
                    None)
    /\ steps' = 0
    /\ pc' = "explore_loop"
    /\ UNCHANGED <<libVars, llmVars, max_steps, modelCalls, runtime, error, last_step,
                   iteration, max_iterations, state_checkpoint, code, problem_summaries,
                   function, output, assessment, result, unsuccessful, model_call>>

\* A mutant of the actions of the explore agent: every registered action.
explore_actions_all == ActionRegistry

\* `tuple(action for action in ACTIONS.values() if action is not WriteFile)`
explore_actions == ActionRegistry \ {"write_file"}

ExploreStep ==
    RunStep("explore_loop", "EXPLORE", FALSE, explore_actions, ExplorationSummary, "plan")

ExploreExhausted == RunExhausted("explore_loop")

\* PLAN: make_plan's completion_step with the reasoning model.
MakePlan ==
    /\ SingleShot("plan", "PLAN", FALSE, Prompt("user", "plan", {}), Plan, "implement", FALSE)
    /\ UNCHANGED <<iteration, max_iterations, state_checkpoint, code, problem_summaries,
                   function, output, assessment, result, unsuccessful>>

\* IMPLEMENT: implement_function; `code = state.response`.
ImplementFunction ==
    /\ SingleShot("implement", "IMPLEMENT", FALSE,
                  Prompt("user", "implement", {Plan}), Code(-1), "checkpoint", FALSE)
    /\ code' = IF pc' = "checkpoint" THEN Code(-1) ELSE code
    /\ UNCHANGED <<iteration, max_iterations, state_checkpoint, problem_summaries,
                   function, output, assessment, result, unsuccessful>>

\* `problem_summaries = []`, `state_checkpoint = state`.
Checkpoint ==
    /\ pc = "checkpoint"
    /\ Enter("CHECKPOINT")
    /\ problem_summaries' = <<>>
    /\ state_checkpoint' = state
    /\ pc' = "loop"
    /\ UNCHANGED <<libVars, llmVars, state, steps, max_steps, modelCalls, runtime, error, last_step,
                   iteration, max_iterations, code, function, output, assessment,
                   result, unsuccessful, model_call>>

\* A mutant of the rewinding: the conversation of the last iteration is kept.
rewound_keeping_conversation(st, checkpoint) == st

\* `state = state_checkpoint`
rewound(st, checkpoint) == checkpoint

\* A mutant of the reset: the sandbox of the last iteration is used again.
fresh_runtime_reusing_sandbox(rt) == rt

\* `runtime = reset_runtime()` inside the loop.
fresh_runtime(rt) == Sandbox(rt.generation + 1)

\* The message that follows the reset.
ResetPrompt == Prompt("user", "reset", {})

\* The head of an iteration: rewind the conversation, reset the sandbox, tell
\* the model (lines 73-83).
ResetIteration ==
    /\ pc = "loop"
    /\ iterations_remain(iteration, max_iterations)
    /\ state' = append_message(rewound(state, state_checkpoint), ResetPrompt)
    /\ runtime' = fresh_runtime(runtime)
    /\ pc' = "execute"
    /\ UNCHANGED <<libVars, llmVars, steps, max_steps, modelCalls, error, last_step, toolVars>>

\* EXECUTE: the FunctionCall is built from the current code and run in the
\* sandbox; a response that is no FunctionCallResult makes run_function raise.
Execute ==
    /\ pc = "execute"
    /\ Enter("EXECUTE")
    /\ function' = FunctionCall(code)
    /\ runtime' = sent(runtime, <<"run">>)
    /\ \E status \in {"success", "error", "raise"} :
          IF status = "raise"
          THEN /\ Raise("ValidationError")
               /\ output' = output
          ELSE /\ output' = FunctionCallResult(status, iteration)
               /\ pc' = "assess"
               /\ error' = error
    /\ UNCHANGED <<libVars, llmVars, state, steps, max_steps, modelCalls, last_step,
                   iteration, max_iterations, state_checkpoint, code, problem_summaries,
                   assessment, result, unsuccessful, model_call>>

\* A mutant of the short-circuit of ASSESS: the model is always asked.
needs_model_judgement_always(out) == TRUE

\* is_successful_execution: `if output.status == "error"` answers without the
\* model; any other status goes to the typed completion_step.
needs_model_judgement(out) == out.status # "error"

\* A mutant of the test after ASSESS: the loop goes on after a success.
is_successful_never(a) == FALSE

\* `if assessment.successful: return state.with_response(function)`
is_successful(a) == a.successful

\* ASSESS, and the return on success (lines 91-95). is_successful_execution
\* works on its own copy of the conversation: make_tool takes only .response.
Assess ==
    /\ pc = "assess"
    /\ Enter("ASSESS")
    /\ IF ~needs_model_judgement(output)
       THEN /\ assessment' = FunctionExecutionAssessment(FALSE, iteration)
            /\ unsuccessful' = unsuccessful + 1
            /\ pc' = "diagnose"
            /\ UNCHANGED <<state, error, result, model_call>>
       ELSE /\ model_call' = ModelCall("ASSESS")
            /\ \E outcome \in LLMOutcomes(TRUE), successful \in BOOLEAN :
                  LET a == FunctionExecutionAssessment(successful, iteration)
                  IN  IF outcome # "ok"
                      THEN /\ Raise(outcome)
                           /\ UNCHANGED <<state, assessment, result, unsuccessful>>
                      ELSE /\ assessment' = a
                           /\ error' = error
                           /\ unsuccessful' = unsuccessful + (IF successful THEN 0 ELSE 1)
                           /\ IF is_successful(a)
                              THEN /\ state' = with_response(state, function)
                                   /\ result' = function
                                   /\ pc' = "finally"
                              ELSE /\ pc' = "diagnose"
                                   /\ UNCHANGED <<state, result>>
    /\ UNCHANGED <<libVars, llmVars, steps, max_steps, modelCalls, runtime, last_step,
                   iteration, max_iterations, state_checkpoint, code, problem_summaries,
                   function, output>>

\* set(seq)
Range(seq) == {seq[i] : i \in 1..Len(seq)}

\* DIAGNOSE begins: the prompt embeds the summaries, the code, the output and
\* the assessment; an agent with every registered action starts and Agent.run
\* clears the response.
DiagnoseBegin ==
    /\ pc = "diagnose"
    /\ Enter("DIAGNOSE")
    /\ state' = with_response(
                    append_message(state,
                                   Prompt("user", "diagnose",
                                          Range(problem_summaries)
                                              \cup {code, output, assessment})),
                    None)
    /\ steps' = 0
    /\ pc' = "diagnose_loop"
    /\ UNCHANGED <<libVars, llmVars, max_steps, modelCalls, runtime, error, last_step,
                   iteration, max_iterations, state_checkpoint, code, problem_summaries,
                   function, output, assessment, result, unsuccessful, model_call>>

DiagnoseStep ==
    RunStep("diagnose_loop", "DIAGNOSE", TRUE, ActionRegistry, Diagnosis(iteration), "rewrite")

DiagnoseExhausted == RunExhausted("diagnose_loop")

\* A mutant of the assignment after REWRITE: the draft stays the candidate.
candidate_keeping_draft(code_draft, st) == code_draft

\* `code = state.response` after rewrite_function (line 112).
candidate(code_draft, st) == st.response

\* REWRITE: rewrite_function; `code = state.response`.
RewriteFunction ==
    /\ SingleShot("rewrite", "REWRITE", FALSE,
                  Prompt("user", "rewrite", {code, state.response}),
                  Code(iteration), "summarize", FALSE)
    /\ code' = IF pc' = "summarize" THEN candidate(code, state') ELSE code
    /\ UNCHANGED <<iteration, max_iterations, state_checkpoint, problem_summaries,
                   function, output, assessment, result, unsuccessful>>

\* SUMMARIZE: `summary = summarize_problem(state, llm).response`, appended to
\* problem_summaries; then the next iteration.
SummarizeProblem ==
    /\ SingleShot("summarize", "SUMMARIZE", FALSE,
                  Prompt("user", "summarize", {}), Summary(iteration), "loop", TRUE)
    /\ problem_summaries' = IF pc' = "loop"
                            THEN Append(problem_summaries, Summary(iteration))
                            ELSE problem_summaries
    /\ iteration' = IF pc' = "loop" THEN iteration + 1 ELSE iteration
    /\ UNCHANGED <<max_iterations, state_checkpoint, code,
                   function, output, assessment, result, unsuccessful>>

\* `raise RuntimeError("Max iterations reached")` after the loop.
MaxIterationsReached ==
    /\ pc = "loop"
    /\ ~iterations_remain(iteration, max_iterations)
    /\ Raise("Max iterations reached")
    /\ UNCHANGED <<libVars, llmVars, state, steps, max_steps, modelCalls, runtime, last_step, toolVars>>

\* The finally clause: runtime.stop(), three times.
Finally ==
    /\ pc = "finally"
    /\ runtime' = stop(stop(stop(runtime)))
    /\ pc' = "done"
    /\ UNCHANGED <<libVars, llmVars, state, steps, max_steps, modelCalls, error, last_step, toolVars>>

(***************************************************************************)
(* AgentState as Python objects (toolmaker/agent/state.py): a frozen       *)
(* dataclass whose fields are tuples. A reference names an object; every   *)
(* method goes through dataclasses.replace.                                *)
(***************************************************************************)
\* A mutant of dataclasses.replace: the receiver itself is updated.
replace_in_place(h, ref, value) == [heap |-> [h EXCEPT ![ref] = value], ref |-> ref]

\* dataclasses.replace(self, field=...): a new object with the changed field;
\* the receiver is left as it is.
replace(h, ref, value) == [heap |-> Append(h, value), ref |-> Len(h) + 1]

\* The five methods, on the object ref of the heap h.
append_message_at(h, ref, message) == replace(h, ref, append_message(h[ref], message))

append_messages_at(h, ref, messages) == replace(h, ref, append_messages(h[ref], messages))

append_action_at(h, ref, action, observation) ==
    replace(h, ref, append_action(h[ref], action, observation))

reset_actions_at(h, ref) == replace(h, ref, reset_actions(h[ref]))

with_response_at(h, ref, response) == replace(h, ref, with_response(h[ref], response))

\* The messages, actions and responses the callers pass.
SomeMessages == {Prompt("user", "a", {}), Prompt("user", "b", {})}

SomeActions == {<<"read_file", Observation("observation", "read_file")>>}

SomeResponses == {None, Parsed}

\* Any of the five methods is called on the object the caller holds, and the
\* caller keeps the returned reference as its state.
CallMethod ==
    /\ pc = "objects"
    /\ Len(heap) < MaxObjects
    /\ \E r \in { append_message_at(heap, receiver, m) : m \in SomeMessages }
              \cup { append_messages_at(heap, receiver, <<m1, m2>>) :
                        m1 \in SomeMessages, m2 \in SomeMessages }
              \cup { append_action_at(heap, receiver, a[1], a[2]) : a \in SomeActions }
              \cup { reset_actions_at(heap, receiver) }
              \cup { with_response_at(heap, receiver, x) : x \in SomeResponses } :
          /\ heap' = r.heap
          /\ receiver' = r.ref
    /\ UNCHANGED <<checkpoint_ref, checkpoint_value>>
    /\ UNCHANGED <<llmVars, agentVars, toolVars, truncVars, registryVars, runtimeVars, lockVars, extVars, moreVars, lastVars>>

\* `state_checkpoint = state` (make_tool.py:70): the reference is kept.
HoldCheckpoint ==
    /\ pc = "objects"
    /\ checkpoint_ref' = receiver
    /\ checkpoint_value' = heap[receiver]
    /\ UNCHANGED <<heap, receiver>>
    /\ UNCHANGED <<llmVars, agentVars, toolVars, truncVars, registryVars, runtimeVars, lockVars, extVars, moreVars, lastVars>>

\* `state = state_checkpoint` (make_tool.py:76).
RewindToCheckpoint ==
    /\ pc = "objects"
    /\ checkpoint_ref # 0
    /\ receiver' = checkpoint_ref
    /\ UNCHANGED <<heap, checkpoint_ref, checkpoint_value>>
    /\ UNCHANGED <<llmVars, agentVars, toolVars, truncVars, registryVars, runtimeVars, lockVars, extVars, moreVars, lastVars>>

\* One object: AgentState(response=None); no checkpoint held.
InitHeap ==
    /\ heap = <<AgentState(None, <<>>, <<>>)>>
    /\ receiver = 1
    /\ checkpoint_ref = 0
    /\ checkpoint_value = None

(***************************************************************************)
(* truncate_observation (toolmaker/actions/actions.py) and truncate_str    *)
(* (toolmaker/utils/__init__.py). A string is a sequence of characters;    *)
(* the fixed parts of the truncation note are single tokens.               *)
(***************************************************************************)
\* Observation.content: a str, or a structure (here a list of numbers).
Content(is_str, value) == [is_str |-> is_str, value |-> value]

\* json.dumps of a list of one-digit numbers (each held as its digit): "[1, 2]".
RECURSIVE json_dumps_items(_)
json_dumps_items(items) ==
    IF Len(items) = 0 THEN <<>>
    ELSE IF Len(items) = 1 THEN <<items[1]>>
    ELSE <<items[1], ",", " ">> \o json_dumps_items(Tail(items))

json_dumps(items) == <<"[">> \o json_dumps_items(items) \o <<"]">>

\* Python's s[i:] and s[:i] for any integer i: a negative index counts from
\* the end, an index beyond the string is clamped, and -0 is 0.
slice_from(s, i) ==
    LET lo == IF i >= 0 THEN i ELSE Len(s) + i
    IN  SubSeq(s, (IF lo < 0 THEN 0 ELSE IF lo > Len(s) THEN Len(s) ELSE lo) + 1, Len(s))

slice_to(s, i) ==
    LET hi == IF i >= 0 THEN i ELSE Len(s) + i
    IN  SubSeq(s, 1, IF hi < 0 THEN 0 ELSE IF hi > Len(s) THEN Len(s) ELSE hi)

\* truncate_str(s, max_length): the note, with s[: max_length // 2] and
\* s[-max_length // 2 :] in it. Python's // is the floor of the quotient, as
\* \div is, and -max_length // 2 is (-max_length) // 2.
truncate_str(s, max_length) ==
    IF Len(s) <= max_length THEN s
    ELSE <<"NOTE: truncated because its length (", ToString(Len(s)),
           ") exceeds the maximum character length (", ToString(max_length), ")",
           "<content>", "\n">>
             \o slice_to(s, max_length \div 2)
             \o <<"\n", "<truncated/>", "\n">>
             \o slice_from(s, (-max_length) \div 2)
             \o <<"\n", "</content>", "\n">>

\* The text whose length truncate_observation measures.
content_text(observation) ==
    IF observation.content.is_str THEN observation.content.value
    ELSE json_dumps(observation.content.value)

\* A mutant of the length test: content of exactly max_length is truncated.
fits_strictly(content, max_length) == Len(content) < max_length

\* `if len(content) <= max_length: return observation`
fits(content, max_length) == Len(content) <= max_length

\* truncate_observation(observation, max_length)
truncate_observation(observation, max_length) ==
    IF fits(content_text(observation), max_length)
    THEN observation
    ELSE [observation EXCEPT
              !.content = Content(TRUE, truncate_str(content_text(observation), max_length))]

RECURSIVE Strings(_)
Strings(n) ==
    IF n = 0 THEN {<<>>}
    ELSE LET shorter == Strings(n - 1)
         IN  shorter \cup {Append(s, c) : s \in shorter, c \in {"a", "b"}}

\* The observations passed in: string contents and list contents.
Observations ==
    { [kind |-> "observation", content |-> Content(TRUE, s)] : s \in Strings(MaxContent) }
        \cup { [kind |-> "observation", content |-> Content(FALSE, l)] :
                  l \in {<<>>, <<"1">>, <<"1", "2">>} }

NoObservation == [kind |-> "None", content |-> Content(TRUE, <<>>)]

\* One call of truncate_observation.
TruncateObservation ==
    /\ pc = "truncate"
    /\ truncated_observation' = truncate_observation(observation_arg, max_length_arg)
    /\ pc' = "truncated"
    /\ UNCHANGED <<observation_arg, max_length_arg, heapVars, registryVars, runtimeVars, lockVars, extVars, moreVars, lastVars, llmVars, toolVars>>
    /\ UNCHANGED <<state, steps, max_steps, modelCalls, runtime, error, last_step>>

(***************************************************************************)
(* The action registry (toolmaker/actions/actions.py): a dict, modelled as *)
(* a function from the kind tags bound so far.                             *)
(***************************************************************************)
\* A mutant of the registration: a tag already bound keeps its binding.
register_action_keeping_first(reg, action) ==
    [t \in DOMAIN reg \cup {action.action} |->
        IF t \in DOMAIN reg THEN reg[t] ELSE action]

\* `ACTIONS[action.action] = action`
register_action(reg, action) ==
    [t \in DOMAIN reg \cup {action.action} |->
        IF t = action.action THEN action ELSE reg[t]]

\* The descriptors passed: classes with their kind tag `action`.
Descriptors ==
    { [action |-> tag, class |-> c] : tag \in {"read_file", "write_file"}, c \in {"A", "B"} }

\* One register_action call.
RegisterAction ==
    /\ pc = "registry"
    /\ Len(registered) < MaxRegistered
    /\ \E action \in Descriptors :
          /\ registry' = register_action(registry, action)
          /\ registered' = Append(registered, action)
    /\ UNCHANGED <<llmVars, agentVars, toolVars, heapVars, truncVars, runtimeVars, lockVars, extVars, moreVars, lastVars>>

(***************************************************************************)
(* The sandbox over HTTP: DockerRuntimeClient (toolmaker/runtime/client.py)*)
(* and the endpoints of the server (toolmaker/runtime/server.py). A JSON   *)
(* object is the function from its top-level keys; the values are strings. *)
(***************************************************************************)
Json(fields) == [json |-> TRUE, fields |-> fields]

\* A body that is not JSON.
PlainText == [json |-> FALSE, fields |-> <<>>]

Response(status_code, text) == [status_code |-> status_code, text |-> text]

\* The output file of the function runner.
File(text) == [exists |-> TRUE, text |-> text]

NoFile == [exists |-> FALSE, text |-> PlainText]

\* The action kinds followed, and the exit codes of the function runner.
ActionKinds == {"read_file", "write_file", "run_bash_command"}

ReturnCodes == {0, 1, 2}

\* The return annotation of the action's __call__.
observation_type_for_action(action) ==
    CASE action = "read_file" -> "FileReadObservation"
      [] action = "write_file" -> "FileWriteObservation"
      [] action = "run_bash_command" -> "BashCommandOutput"

\* pydantic's model_validate_json: the body must be JSON, hold the required
\* fields of the model and meet their types; keys the model does not declare
\* are dropped. Defaults of absent fields are not followed.
model_validate_json(type, text) ==
    LET required == CASE type = "FileReadObservation" -> {"content"}
                      [] type = "FileWriteObservation" -> {"filename"}
                      [] type = "BashCommandOutput" -> {"content", "return_code"}
                      [] type = "FunctionCallErrorObservation" -> {"error"}
                      [] type = "FunctionCallResult" -> {"status"}
        declared == CASE type = "FunctionCallResult" -> {"status", "result", "stdout"}
                      [] OTHER -> required \cup {"content"}
        valid    == /\ text.json
                    /\ required \subseteq DOMAIN text.fields
                    /\ type = "FunctionCallResult"
                          => text.fields["status"] \in {"success", "error"}
                    /\ (type = "FileWriteObservation" /\ "content" \in DOMAIN text.fields)
                          => text.fields["content"] = "null"
    IN  IF valid
        THEN [raised |-> "None", type |-> type,
              fields |-> [k \in DOMAIN text.fields \cap declared |-> text.fields[k]]]
        ELSE [raised |-> "ValidationError", type |-> "None", fields |-> <<>>]

NoReturn == [raised |-> "None", type |-> "None", fields |-> <<>>]

\* A mutant of execute: the declared type is used for every status.
execute_declared_type(action, resp) ==
    model_validate_json(observation_type_for_action(action), resp.text)

\* DockerRuntimeClient.execute, after the response has arrived.
execute(action, resp) ==
    LET observation_type == IF resp.status_code = 500
                            THEN "FunctionCallErrorObservation"
                            ELSE observation_type_for_action(action)
    IN  model_validate_json(observation_type, resp.text)

\* A mutant of the removal of the output file: the file stays.
unlink_keeping(file) == file

\* `output_path.unlink(missing_ok=True)`
unlink(file) == NoFile

\* A mutant of the exit-code test: exit code 1 passes too.
exited_ok_below_two(return_code) == return_code < 2

\* `cmd.return_code == 0`
exited_ok(return_code) == return_code = 0

\* `json.load(output_path.open("r"))["result"]`
load_result(file) ==
    CASE ~file.exists -> [raised |-> "FileNotFoundError", value |-> "None"]
      [] file.exists /\ ~file.text.json -> [raised |-> "JSONDecodeError", value |-> "None"]
      [] file.exists /\ file.text.json /\ "result" \notin DOMAIN file.text.fields
            -> [raised |-> "KeyError", value |-> "None"]
      [] OTHER -> [raised |-> "None", value |-> file.text.fields["result"]]

\* What the function runner may leave behind: nothing, a file that is not
\* JSON, a JSON file without a result, or a result.
Writes ==
    {NoFile} \cup { File(t) : t \in {PlainText, Json([other |-> "x"]),
                                    Json([result |-> "v1"]), Json([result |-> "v2"])} }

\* The messages of the FunctionCallErrors followed (ReadFile: io.py:115-125).
ErrorMessages == {"File not found", "File is a directory"}

\* The client posts to /execute/{action.action}.
ExecutePost ==
    /\ pc = "client"
    /\ http_request.calls < MaxRequests
    /\ \E action \in ActionKinds :
          http_request' = [endpoint |-> "execute", action |-> action,
                      calls |-> http_request.calls + 1, posts |-> 1]
    /\ http_response' = Response(0, PlainText)
    /\ returned' = NoReturn
    /\ pc' = "execute_posted"
    /\ UNCHANGED <<process, output_file>>
    /\ UNCHANGED <<llmVars, toolVars, heapVars, truncVars, registryVars, lockVars, extVars, moreVars, lastVars>>
    /\ UNCHANGED <<state, steps, max_steps, modelCalls, runtime, error, last_step>>

\* The server answers /execute/{name}: the action returns its observation,
\* raises FunctionCallError (answered by function_call_error_handler), raises
\* another exception (answered by the framework with a plain-text 500), or
\* the framework rejects the request body (422).
ServeExecute ==
    /\ pc = "execute_posted"
    /\ \E outcome \in {"returns", "FunctionCallError", "Exception", "RequestValidationError"},
          exc_message \in ErrorMessages :
          http_response' =
             CASE outcome = "returns" ->
                    Response(200, Json(
                       CASE http_request.action = "read_file" -> [content |-> "text"]
                         [] http_request.action = "write_file" -> [content |-> "null", filename |-> "f"]
                         [] http_request.action = "run_bash_command" -> [content |-> "text", return_code |-> "0"]))
               [] outcome = "FunctionCallError" ->
                    Response(500, Json([content |-> "An error occurred", error |-> exc_message]))
               [] outcome = "Exception" -> Response(500, PlainText)
               [] outcome = "RequestValidationError" -> Response(422, Json([detail |-> "errors"]))
    /\ pc' = "execute_served"
    /\ UNCHANGED <<http_request, returned, process, output_file>>
    /\ UNCHANGED <<llmVars, toolVars, heapVars, truncVars, registryVars, lockVars, extVars, moreVars, lastVars>>
    /\ UNCHANGED <<state, steps, max_steps, modelCalls, runtime, error, last_step>>

\* execute returns, or raises what model_validate_json raises.
ExecuteReturn ==
    /\ pc = "execute_served"
    /\ returned' = execute(http_request.action, http_response)
    /\ pc' = "client"
    /\ UNCHANGED <<http_request, http_response, process, output_file>>
    /\ UNCHANGED <<llmVars, toolVars, heapVars, truncVars, registryVars, lockVars, extVars, moreVars, lastVars>>
    /\ UNCHANGED <<state, steps, max_steps, modelCalls, runtime, error, last_step>>

\* The client posts to /run.
RunFunctionPost ==
    /\ pc = "client"
    /\ http_request.calls < MaxRequests
    /\ http_request' = [endpoint |-> "run", action |-> "None",
                   calls |-> http_request.calls + 1, posts |-> 1]
    /\ http_response' = Response(0, PlainText)
    /\ returned' = NoReturn
    /\ pc' = "run_posted"
    /\ UNCHANGED <<process, output_file>>
    /\ UNCHANGED <<llmVars, toolVars, heapVars, truncVars, registryVars, lockVars, extVars, moreVars, lastVars>>
    /\ UNCHANGED <<state, steps, max_steps, modelCalls, runtime, error, last_step>>

\* The server answers /run: it removes the output file, runs the function
\* runner and builds the result. An exception of the handler is answered by
\* the framework with a plain-text 500.
ServeRun ==
    /\ pc = "run_posted"
    /\ \E return_code \in ReturnCodes, wrote \in Writes, out \in {"", "Traceback"} :
          LET unlinked == unlink(output_file)
              file     == IF wrote.exists THEN wrote ELSE unlinked
              loaded   == load_result(file)
          IN  /\ process' = [return_code |-> return_code, output |-> out,
                             wrote |-> wrote, stale |-> output_file]
              /\ output_file' = file
              /\ http_response' =
                    IF exited_ok(return_code)
                    THEN IF loaded.raised = "None"
                         THEN Response(200, Json([status |-> "success",
                                                  result |-> loaded.value, stdout |-> out]))
                         ELSE Response(500, PlainText)
                    ELSE Response(200, Json([status |-> "error",
                            result |-> CASE return_code = 1 -> "Process failed with return code 1"
                                         [] return_code = 2 -> "Process failed with return code 2"
                                         [] OTHER -> "Process failed with return code n",
                            stdout |-> out]))
    /\ pc' = "run_served"
    /\ UNCHANGED <<http_request, returned>>
    /\ UNCHANGED <<llmVars, toolVars, heapVars, truncVars, registryVars, lockVars, extVars, moreVars, lastVars>>
    /\ UNCHANGED <<state, steps, max_steps, modelCalls, runtime, error, last_step>>

\* run_function returns, or raises what model_validate_json raises.
RunFunctionReturn ==
    /\ pc = "run_served"
    /\ returned' = model_validate_json("FunctionCallResult", http_response.text)
    /\ pc' = "client"
    /\ UNCHANGED <<http_request, http_response, process, output_file>>
    /\ UNCHANGED <<llmVars, toolVars, heapVars, truncVars, registryVars, lockVars, extVars, moreVars, lastVars>>
    /\ UNCHANGED <<state, steps, max_steps, modelCalls, runtime, error, last_step>>

InitRuntime ==
    /\ http_request = [endpoint |-> "None", action |-> "None", calls |-> 0, posts |-> 0]
    /\ http_response = Response(0, PlainText)
    /\ returned = NoReturn
    /\ process = [return_code |-> 0, output |-> "", wrote |-> NoFile, stale |-> NoFile]
    /\ output_file = NoFile

(***************************************************************************)
(* The request lock of the server (toolmaker/runtime/api.py): one          *)
(* asyncio.Lock for the API instance, taken by the middleware around every *)
(* handler. Requests are coroutines of one event loop; each action below   *)
(* is one uninterrupted stretch of a coroutine.                            *)
(***************************************************************************)
\* A mutant of the lock: it is always granted.
lock_free_always(is_locked, waiting) == TRUE

\* Lock.acquire grants the lock at once when it is not held and nobody waits.
lock_free(is_locked, waiting) == ~is_locked /\ waiting = <<>>

\* A request arrives and runs `async with lock:` up to its first suspension:
\* it takes the lock and starts its handler, or joins the waiters. Requests
\* are numbered in the order of their arrival.
Arrive ==
    /\ pc = "lock"
    /\ \E r \in 1..MaxArrivals, endpoint \in {"execute", "run", "alive"} :
          /\ arrivals[r].at = "none"
          /\ \A earlier \in 1..(r - 1) : arrivals[earlier].at # "none"
          /\ IF lock_free(locked, waiters)
             THEN /\ locked' = TRUE
                  /\ waiters' = waiters
                  /\ arrivals' = [arrivals EXCEPT ![r] =
                        [endpoint |-> endpoint, at |-> "handler", waited |-> FALSE]]
                  /\ log' = Append(log, [event |-> "start", request |-> r])
             ELSE /\ waiters' = Append(waiters, r)
                  /\ arrivals' = [arrivals EXCEPT ![r] =
                        [endpoint |-> endpoint, at |-> "waiting", waited |-> TRUE]]
                  /\ UNCHANGED <<locked, log>>
    /\ UNCHANGED <<llmVars, agentVars, toolVars, heapVars, truncVars, registryVars, runtimeVars, extVars, moreVars, lastVars>>

\* The first waiter, woken by the release, takes the lock and starts its
\* handler (`response = await call_next(request)`).
Resume ==
    /\ pc = "lock"
    /\ ~locked
    /\ waiters # <<>>
    /\ locked' = TRUE
    /\ waiters' = Tail(waiters)
    /\ arrivals' = [arrivals EXCEPT ![Head(waiters)].at = "handler"]
    /\ log' = Append(log, [event |-> "start", request |-> Head(waiters)])
    /\ UNCHANGED <<llmVars, agentVars, toolVars, heapVars, truncVars, registryVars, runtimeVars, extVars, moreVars, lastVars>>

\* A mutant of leaving `async with`: a handler that raises keeps the lock.
held_after_exit_when_raised(outcome) == outcome = "raised"

\* Leaving `async with lock:` releases the lock, however the block ended.
held_after_exit(outcome) == FALSE

\* A handler returns or raises; leaving `async with` releases the lock and
\* wakes the first waiter.
Finish ==
    /\ pc = "lock"
    /\ \E r \in 1..MaxArrivals, outcome \in {"returned", "raised"} :
          /\ arrivals[r].at = "handler"
          /\ arrivals' = [arrivals EXCEPT ![r].at = outcome]
          /\ log' = Append(log, [event |-> "finish", request |-> r])
          /\ locked' = held_after_exit(outcome)
    /\ UNCHANGED waiters
    /\ UNCHANGED <<llmVars, agentVars, toolVars, heapVars, truncVars, registryVars, runtimeVars, extVars, moreVars, lastVars>>

InitLock ==
    /\ locked = FALSE
    /\ waiters = <<>>
    /\ arrivals = [r \in 1..MaxArrivals |-> [endpoint |-> "None", at |-> "none", waited |-> FALSE]]
    /\ log = <<>>

(***************************************************************************)
(* run_bash_command and _record_stream (toolmaker/utils/bash.py). Text is  *)
(* a sequence of characters; "EOFError" and the text of the note are       *)
(* single tokens. The terminal emulator (pyte) is followed for printable   *)
(* characters and line feeds: rows of at most `width` cells, the cursor at *)
(* the end of the last row, the top row scrolled away beyond `height`.     *)
(***************************************************************************)
\* ByteStream.feed of one character c.
feed(rows, c, width, height) ==
    LET scrolled(rs) == IF Len(rs) > height THEN Tail(rs) ELSE rs
        cursor_row   == rows[Len(rows)]
    IN  IF c = "\n" THEN scrolled(Append(rows, <<>>))
        ELSE IF Len(cursor_row) = width THEN scrolled(Append(rows, <<c>>))
        ELSE [rows EXCEPT ![Len(rows)] = Append(cursor_row, c)]

RECURSIVE feed_all(_, _, _, _)
\* ByteStream.feed of a block.
feed_all(rows, block, width, height) ==
    IF block = <<>> THEN rows
    ELSE feed_all(feed(rows, Head(block), width, height), Tail(block), width, height)

\* A mutant of the reduction over the rendered lines: every line is kept.
collapse_keeping_all(rendered) == rendered

RECURSIVE collapse(_)
\* `functools.reduce(lambda acc, x: acc + [x] if x or acc and acc[-1] else acc, output, [])`
collapse(rendered) ==
    IF rendered = <<>> THEN <<>>
    ELSE LET acc == collapse(SubSeq(rendered, 1, Len(rendered) - 1))
             x   == rendered[Len(rendered)]
         IN  IF x # <<>> \/ (acc # <<>> /\ acc[Len(acc)] # <<>>) THEN Append(acc, x) ELSE acc

\* The lines _record_stream joins: screen.display (`height` rows), each
\* right-stripped, then reduced.
display_lines(rows, height) ==
    LET RECURSIVE rstrip(_)
        rstrip(row) == IF row # <<>> /\ row[Len(row)] = " "
                       THEN rstrip(SubSeq(row, 1, Len(row) - 1)) ELSE row
    IN  collapse([i \in 1..height |-> IF i <= Len(rows) THEN rstrip(rows[i]) ELSE <<>>])

\* `"\n".join(output)`
join(joined) ==
    LET RECURSIVE from(_)
        from(i) == IF i > Len(joined) THEN <<>>
                   ELSE IF i = Len(joined) THEN joined[i]
                   ELSE joined[i] \o <<"\n">> \o from(i + 1)
    IN  from(1)

\* A mutant of the test for the note: "EOFError" anywhere in the transcript.
eof_error_anywhere(transcript) == \E i \in 1..Len(transcript) : transcript[i] = "EOFError"

\* `(lines := output.strip().splitlines()) and lines[-1].startswith("EOFError")`
eof_error_last(transcript) ==
    LET inked == { i \in 1..Len(transcript) : transcript[i] \notin {" ", "\n"} }
    IN  /\ inked # {}
        /\ LET lo    == CHOOSE i \in inked : \A j \in inked : i <= j
               hi    == CHOOSE i \in inked : \A j \in inked : j <= i
               marks == {lo} \cup { i + 1 : i \in { j \in lo..hi : transcript[j] = "\n" } }
               start == CHOOSE i \in marks : \A j \in marks : j <= i
           IN  transcript[start] = "EOFError"

\* A mutant of the end of the read loop: it ends when the process has exited.
stream_ended_at_exit(b) == b.exited

\* `stream.read(block_size)` returns b"": nothing is buffered and the
\* writing end is closed.
stream_ended(b) == b.pipe = <<>> /\ b.closed

\* The commands followed: what the process writes, its exit code, and what
\* it does with standard input, which is /dev/null: it does not read it, it
\* reads it and takes the end of input as the end of its data, or it reads
\* it with an uncaught input() and dies with the interpreter's traceback.
Programs ==
    LET Texts == UNION { [1..n -> {"a", " ", "\n", "EOFError"}] : n \in 0..MaxOutput }
    IN  { [text |-> t, exit_code |-> e, stdin |-> s] :
             t \in Texts, e \in {0, 1}, s \in {"unused", "handled"} }
        \cup { [text |-> t \o <<"\n", "EOFError", "\n">>, exit_code |-> 1, stdin |-> "uncaught"] :
                  t \in Texts }

\* The process writes some more of its output into the pipe.
ProcessWrite ==
    /\ pc = "bash"
    /\ ~bash.closed
    /\ \E n \in 1..MaxOutput :
          /\ bash.written + n <= Len(bash.program.text)
          /\ bash' = [bash EXCEPT !.written = @ + n,
                        !.pipe = @ \o SubSeq(bash.program.text, bash.written + 1, bash.written + n)]
    /\ UNCHANGED <<llmVars, agentVars, toolVars, baseLibVars, envs, moreVars, lastVars>>

\* The process closes its output after its last write.
ProcessClose ==
    /\ pc = "bash"
    /\ ~bash.closed
    /\ bash.written = Len(bash.program.text)
    /\ bash' = [bash EXCEPT !.closed = TRUE]
    /\ UNCHANGED <<llmVars, agentVars, toolVars, baseLibVars, envs, moreVars, lastVars>>

\* The process exits, which closes its output, whether or not the pipe has
\* been read.
ProcessExit ==
    /\ pc = "bash"
    /\ ~bash.exited
    /\ bash.written = Len(bash.program.text)
    /\ bash' = [bash EXCEPT !.closed = TRUE, !.exited = TRUE, !.unread_at_exit = Len(bash.pipe)]
    /\ UNCHANGED <<llmVars, agentVars, toolVars, baseLibVars, envs, moreVars, lastVars>>

\* _record_stream: one `await stream.read(block_size)` that returns a block,
\* fed to the screen.
ReadBlock ==
    /\ pc = "bash"
    /\ bash.at = "reading"
    /\ ~stream_ended(bash)
    /\ bash.pipe # <<>>
    /\ LET n == IF Len(bash.pipe) < BlockSize THEN Len(bash.pipe) ELSE BlockSize
       IN  bash' = [bash EXCEPT
                      !.pipe = SubSeq(@, n + 1, Len(@)),
                      !.screen = feed_all(@, SubSeq(bash.pipe, 1, n), ScreenWidth, ScreenHeight)]
    /\ UNCHANGED <<llmVars, agentVars, toolVars, baseLibVars, envs, moreVars, lastVars>>

\* The read loop ends; _record_stream returns the transcript and
\* run_bash_command appends the note.
ReadEnd ==
    /\ pc = "bash"
    /\ bash.at = "reading"
    /\ stream_ended(bash)
    /\ LET transcript == join(display_lines(bash.screen, ScreenHeight))
       IN  bash' = [bash EXCEPT
                      !.at = "waiting",
                      !.out = IF eof_error_last(transcript)
                              THEN transcript \o <<"\n", "NOTE", "\n">>
                              ELSE transcript]
    /\ UNCHANGED <<llmVars, agentVars, toolVars, baseLibVars, envs, moreVars, lastVars>>

\* `return_code = await process.wait()` and the return.
Wait ==
    /\ pc = "bash"
    /\ bash.at = "waiting"
    /\ bash.exited
    /\ bash' = [bash EXCEPT !.at = "returned", !.return_code = bash.program.exit_code]
    /\ UNCHANGED <<llmVars, agentVars, toolVars, baseLibVars, envs, moreVars, lastVars>>

NoProgram == [text |-> <<>>, exit_code |-> 0, stdin |-> "unused"]

\* create_subprocess_shell has started the command.
InitBash(programs) ==
    \E p \in programs :
        bash = [program |-> p, written |-> 0, closed |-> FALSE, exited |-> FALSE,
                pipe |-> <<>>, screen |-> << <<>> >>, at |-> "reading",
                out |-> <<>>, return_code |-> -1, unread_at_exit |-> 0]

(***************************************************************************)
(* substitute_env_vars (toolmaker/utils/env.py) and                        *)
(* FunctionCall.substitute_env_vars (toolmaker/runtime/code.py). A string  *)
(* is a sequence of tokens: "${env:", a variable name, "}" and other text. *)
(***************************************************************************)
ALLOWED_ENV_VARS == {"HF_TOKEN"}

\* The variable names followed.
EnvNames == {"HF_TOKEN", "SECRET"}

\* A mutant of the decision on one placeholder: the allow-list is not asked.
resolvable_ignoring_allowed(var, env, allowed) == var \in DOMAIN env

\* `var in env` and `var in allowed`
resolvable(var, env, allowed) == var \in DOMAIN env /\ var \in allowed

RECURSIVE substitute_env_vars(_, _, _)
\* `ENV_VAR_SUBSTITUTION_PATTERN.sub(substitute, s)`: the matches are found
\* from left to right in s; what replaces a match is not searched again.
substitute_env_vars(s, env, allowed) ==
    IF s = <<>> THEN <<>>
    ELSE IF Len(s) >= 3 /\ s[1] = "${env:" /\ s[2] \in EnvNames /\ s[3] = "}"
         THEN (IF resolvable(s[2], env, allowed) THEN env[s[2]] ELSE SubSeq(s, 1, 3))
                 \o substitute_env_vars(SubSeq(s, 4, Len(s)), env, allowed)
         ELSE <<s[1]>> \o substitute_env_vars(Tail(s), env, allowed)

\* A mutant of model_copy: the update is written into the object itself.
model_copy_in_place(objects, ref, update) ==
    [objects |-> [objects EXCEPT ![ref] =
                     [f \in DOMAIN objects[ref] |->
                         IF f \in DOMAIN update THEN update[f] ELSE objects[ref][f]]],
     ref |-> ref]

\* BaseModel.model_copy(deep=True, update=...): a new object with the fields
\* of the old one, those of `update` replaced; the old object is not written.
model_copy(objects, ref, update) ==
    [objects |-> Append(objects,
                        [f \in DOMAIN objects[ref] |->
                            IF f \in DOMAIN update THEN update[f] ELSE objects[ref][f]]),
     ref |-> Len(objects) + 1]

RECURSIVE copy_args(_, _, _, _)
\* `[v.model_copy(deep=True, update=dict(value=...)) for v in self.args]`,
\* from the i-th argument on: the objects afterwards and the new list.
copy_args(objects, refs, env, i) ==
    IF i > Len(refs) THEN [objects |-> objects, refs |-> <<>>]
    ELSE LET v == objects[refs[i]]
             c == model_copy(objects, refs[i],
                             [value |-> IF v.value.is_str
                                        THEN Content(TRUE, substitute_env_vars(
                                                 v.value.value, env, ALLOWED_ENV_VARS))
                                        ELSE v.value])
             rest == copy_args(c.objects, refs, env, i + 1)
         IN  [objects |-> rest.objects, refs |-> <<c.ref>> \o rest.refs]

\* FunctionCall.substitute_env_vars: a copy whose string-valued arguments are
\* substituted, with the default allow-list.
FunctionCall_substitute_env_vars(objects, self, env) ==
    LET copied == copy_args(objects, objects[self].args, env, 1)
    IN  model_copy(copied.objects, self, [args |-> copied.refs])

\* FunctionCall.model_dump(): the object with its arguments, as data.
model_dump(objects, ref) ==
    [code |-> objects[ref].code, name |-> objects[ref].name,
     args |-> [i \in DOMAIN objects[ref].args |-> objects[objects[ref].args[i]]]]

RECURSIVE Templates(_)
\* The strings followed: up to n pieces, each a placeholder, a part of one,
\* or other text.
Templates(n) ==
    IF n = 0 THEN {<<>>}
    ELSE Templates(n - 1) \cup
         { t \o piece : t \in Templates(n - 1),
             piece \in { <<"x">>, <<"${env:", "HF_TOKEN", "}">>, <<"${env:", "SECRET", "}">>,
                         <<"${env:">>, <<"HF_TOKEN">>, <<"}">> } }

\* One substitute_env_vars call.
SubstituteEnvVars ==
    /\ pc = "env"
    /\ envs.at = "start"
    /\ envs' = [envs EXCEPT !.at = "substituted",
                  !.substituted = substitute_env_vars(envs.s, envs.env, envs.allowed)]
    /\ UNCHANGED <<llmVars, agentVars, toolVars, baseLibVars, bash, moreVars, lastVars>>

\* DockerRuntimeClient.run_function up to the post: the request carries the
\* substituted copy, made with the environment of the host.
RunFunctionSubstitute ==
    /\ pc = "env"
    /\ envs.at = "start"
    /\ LET copy_made == FunctionCall_substitute_env_vars(envs.objects, envs.held, envs.env)
       IN  envs' = [envs EXCEPT !.at = "transmitted",
                      !.objects = copy_made.objects,
                      !.posted = copy_made.ref,
                      !.transmitted = model_dump(copy_made.objects, copy_made.ref)]
    /\ UNCHANGED <<llmVars, agentVars, toolVars, baseLibVars, bash, moreVars, lastVars>>

\* make_tool after run_function: `return state.with_response(function)` hands
\* out the object make_tool built before the call, and it is dumped when the
\* tool is persisted.
ReturnFunction ==
    /\ pc = "env"
    /\ envs.at = "transmitted"
    /\ envs' = [envs EXCEPT !.at = "returned",
                  !.kept = model_dump(envs.objects, envs.held)]
    /\ UNCHANGED <<llmVars, agentVars, toolVars, baseLibVars, bash, moreVars, lastVars>>

\* The arguments of the calls: a string, an environment, an allow-list, and
\* a FunctionCall whose code and arguments hold the string; the FunctionCall
\* and its arguments are objects, and the caller holds the FunctionCall.
InitEnv(templates) ==
    \E s \in templates, allowed \in SUBSET EnvNames, present \in SUBSET EnvNames :
       \E env \in [present -> {<<"v">>, <<"${env:", "SECRET", "}">>}] :
          LET call == [code |-> s, name |-> <<"f">>,
                       args |-> << [name |-> "a", value |-> Content(TRUE, s)],
                                   [name |-> "b", value |-> Content(FALSE, s)],
                                   [name |-> "c", value |-> Content(TRUE, <<"${env:", "SECRET", "}">>)] >>]
          IN  envs = [s |-> s, env |-> env, allowed |-> allowed, call |-> call,
                      at |-> "start", substituted |-> <<>>, transmitted |-> call,
                      objects |-> call.args \o <<[call EXCEPT !.args = <<1, 2, 3>>]>>,
                      held |-> 4, posted |-> 0, kept |-> call]

(***************************************************************************)
(* install_repository (toolmaker/tasks/install.py). A repository name and  *)
(* a path are strings of characters; "w" stands for the text "workspace".  *)
(***************************************************************************)
NameChars == {"/", "r", "."}
PathChars == {"/", "w", "r", "."}

RECURSIVE StringsOver(_, _)
\* The strings of up to n characters of an alphabet.
StringsOver(alphabet, n) ==
    IF n = 0 THEN {<<>>}
    ELSE LET shorter == StringsOver(alphabet, n - 1)
         IN  shorter \cup { Append(s, c) : s \in shorter, c \in alphabet }

\* Path("/workspace")
LOCAL_WORKSPACE_DIR == <<"/", "w">>

\* `self.name.split("/")[-1]`: what follows the last "/", the whole name
\* when it holds none.
name_without_owner(repo_name) ==
    LET slashes == { i \in DOMAIN repo_name : repo_name[i] = "/" }
        last == IF slashes = {} THEN 0
                ELSE CHOOSE i \in slashes : \A j \in slashes : j <= i
    IN  SubSeq(repo_name, last + 1, Len(repo_name))

\* `str(LOCAL_WORKSPACE_DIR / repo.name_without_owner)`: the division of
\* paths drops an empty part and a part ".", and puts one "/" before any
\* other part.
get_local_install_path(repo_name) ==
    LET part == name_without_owner(repo_name)
    IN  IF part \in {<<>>, <<".">>} THEN LOCAL_WORKSPACE_DIR
        ELSE LOCAL_WORKSPACE_DIR \o <<"/">> \o part

\* A mutant of the comparison: a trailing "/" of the reported path is not
\* counted.
is_install_path_modulo_slash(reported, install_path) ==
    \/ reported = install_path
    \/ reported = install_path \o <<"/">>

\* the negation of `state.response.path != install_path`
is_install_path(reported, install_path) == reported = install_path

\* Agent(...).run(...) returned: the response of the agent names any path.
InstallAgentReturns ==
    /\ install.at = "agent"
    /\ \E reported \in StringsOver(PathChars, MaxPath) :
          install' = [install EXCEPT !.at = "check", !.response = reported]
    /\ UNCHANGED <<llmVars, agentVars, toolVars, baseLibVars, extVars, retries, lastVars>>

\* Agent(...).run(...) raised: install_repository has no handler.
InstallAgentRaises ==
    /\ install.at = "agent"
    /\ install' = [install EXCEPT !.at = "raised", !.error = "AgentExhaustedError"]
    /\ UNCHANGED <<llmVars, agentVars, toolVars, baseLibVars, extVars, retries, lastVars>>

\* The comparison with the expected path, and the return.
InstallCheck ==
    /\ install.at = "check"
    /\ install' =
          IF ~is_install_path(install.response, get_local_install_path(install.repo))
          THEN [install EXCEPT !.at = "raised", !.error = "RuntimeError"]
          ELSE [install EXCEPT !.at = "returned", !.result = install.response]
    /\ UNCHANGED <<llmVars, agentVars, toolVars, baseLibVars, extVars, retries, lastVars>>

\* No path: the response before the agent has answered, the result before
\* the return.
NoPath == <<"None">>

\* install_repository has been called for a repository.
InitInstall(names) ==
    \E repo_name \in names :
        install = [repo |-> repo_name, at |-> "agent", response |-> NoPath,
                   result |-> NoPath, error |-> "None"]

(***************************************************************************)
(* The completion functions of toolmaker/llm/completions.py and the retry  *)
(* around litellm.completion. An exception is named by its class.          *)
(***************************************************************************)
\* What one call of litellm.completion may raise: the two provider errors
\* named in the file, another Exception, and a BaseException that is not an
\* Exception.
Exceptions == {"APIError", "RateLimitError", "ValueError"}
Raisable == Exceptions \cup {"KeyboardInterrupt"}

\* tenacity.Retrying(retry=retry_if_exception_type(types),
\* stop=stop_after_attempt(n) or stop_never (n = 0), wait=wait_fixed(seconds))
Retrying(types, n, seconds) == [retry |-> types, stop |-> n, wait |-> seconds]

\* tenacity.Retrying(): retry_if_exception_type() retries on every
\* Exception, stop_never, wait_none().
DefaultRetrying == Retrying(Exceptions, 0, 0)

\* tenacity.retry(*dargs, **dkw): called with one positional argument that
\* is callable it is the bare decorator and returns retry()(dargs[0]), which
\* wraps the function in Retrying() and does not read dkw; called with
\* keywords alone it returns a decorator that wraps in Retrying(**dkw).
tenacity_retry(positional_callable, dkw) ==
    IF positional_callable THEN DefaultRetrying ELSE dkw

\* tenacity.retry(litellm.completion, retry=retry_if_exception_type(litellm.APIError),
\*                stop=stop_after_attempt(3), wait=wait_fixed(2), ...)
litellm_completion_retry_on_api_error ==
    tenacity_retry(TRUE, Retrying({"APIError"}, 3, 2))

\* tenacity.retry(litellm.completion, retry=retry_if_exception_type(litellm.RateLimitError),
\*                stop=stop_after_attempt(3), wait=wait_fixed(60), ...)
litellm_completion_retry_on_rate_limit ==
    tenacity_retry(TRUE, Retrying({"RateLimitError"}, 3, 60))

\* litellm.completion itself: one attempt.
litellm_completion == Retrying({}, 1, 0)

\* completion_factory(model): the retry in force around litellm.completion
\* ("claude" goes through claude_completion, which calls the rate-limit
\* wrapper).
completion_factory(model) ==
    IF model = "o3-mini" THEN litellm_completion_retry_on_api_error
    ELSE IF model = "claude" THEN litellm_completion_retry_on_rate_limit
    ELSE litellm_completion

\* What Retrying does after an attempt raised exc, attempts made so far
\* included: "retry" after waiting, raise RetryError when the stop condition
\* holds (reraise is not set), or let exc through when it is not retried.
after_attempt(policy, attempts, exc) ==
    IF exc \notin policy.retry THEN exc
    ELSE IF policy.stop # 0 /\ attempts >= policy.stop THEN "RetryError"
    ELSE "retry"

\* One attempt returns the provider's response.
AttemptReturns ==
    /\ retries.at = "calling"
    /\ retries.attempts < MaxAttempts
    /\ retries' = [retries EXCEPT !.at = "returned", !.attempts = @ + 1]
    /\ UNCHANGED <<llmVars, agentVars, toolVars, baseLibVars, extVars, install, lastVars>>

\* One attempt raises.
AttemptRaises ==
    /\ retries.at = "calling"
    /\ retries.attempts < MaxAttempts
    /\ \E exc \in Raisable :
          LET next == after_attempt(completion_factory(retries.model), retries.attempts + 1, exc)
          IN  retries' =
                 IF next = "retry"
                 THEN [retries EXCEPT !.attempts = @ + 1, !.raised = Append(@, exc),
                          !.waits = Append(@, completion_factory(retries.model).wait)]
                 ELSE [retries EXCEPT !.attempts = @ + 1, !.raised = Append(@, exc),
                          !.at = "raised", !.error = next]
    /\ UNCHANGED <<llmVars, agentVars, toolVars, baseLibVars, extVars, install, lastVars>>

\* completion_factory(model) has been called for one of the models and the
\* function it returned is called once.
InitRetry(models) ==
    \E m \in models :
        retries = [model |-> m, at |-> "calling", attempts |-> 0, raised |-> <<>>,
                   waits |-> <<>>, error |-> "None"]

(***************************************************************************)
(* The body of Agent.step's loop for one call (agent.py:88-101), with the  *)
(* content of the observation. A path is a string of characters; "md",     *)
(* "py" and "ipynb" stand for those letters.                               *)
(***************************************************************************)
PathTokens == {"a", ".", "/", "md", "py", "ipynb"}

\* The default of truncate_observation's max_length.
DEFAULT_MAX_LENGTH == 15000

RECURSIVE path_parts(_)
\* The parts of Path(p): the pieces between "/", without the empty ones and
\* the "." ones.
path_parts(p) ==
    IF p = <<>> THEN <<>>
    ELSE LET slashes == { i \in DOMAIN p : p[i] = "/" }
             k == IF slashes = {} THEN Len(p) + 1
                  ELSE CHOOSE i \in slashes : \A j \in slashes : i <= j
             head == SubSeq(p, 1, k - 1)
             rest == path_parts(SubSeq(p, k + 1, Len(p)))
         IN  IF head \in {<<>>, <<".">>} THEN rest ELSE <<head>> \o rest

\* Path(p).suffix: what the last part holds from its last "." on, when that
\* "." is neither its first nor its last character; otherwise empty.
path_suffix(p) ==
    LET parts == path_parts(p)
        name == IF parts = <<>> THEN <<>> ELSE parts[Len(parts)]
        dots == { i \in DOMAIN name : name[i] = "." }
        i == IF dots = {} THEN 0 ELSE CHOOSE d \in dots : \A e \in dots : e <= d
    IN  IF 1 < i /\ i < Len(name) THEN SubSeq(name, i, Len(name)) ELSE <<>>

\* A mutant of the exemption: every ReadFile is exempt.
may_truncate_no_read(action) == action.action # "read_file"

\* Agent._may_truncate(action, observation)
may_truncate(action) ==
    ~(/\ action.action = "read_file"
      /\ path_suffix(action.path) \in {<<".", "md">>, <<".", "py">>, <<".", "ipynb">>})

\* observation.model_dump_json(): the JSON text of the observation's fields.
model_dump_json(observation) == [kind |-> "json", of |-> observation]

\* agent.py:91-101, for the call `id`: the truncation, then the tool message
\* and the (action, observation) pair are appended.
append_call(st, action, returned_observation, id) ==
    LET observation == IF may_truncate(action)
                       THEN truncate_observation(returned_observation, DEFAULT_MAX_LENGTH)
                       ELSE returned_observation
    IN  [st EXCEPT !.messages = Append(@, Message("tool", model_dump_json(observation),
                                                  NoToolCalls, id, {})),
                   !.actions = Append(@, <<action, observation>>)]

\* runtime.execute(action) returned: the rest of the loop body.
StepCall ==
    /\ acting.at = "executed"
    /\ acting' = [append_call(acting, acting.action, acting.returned, 1)
                     EXCEPT !.at = "appended"]
    /\ UNCHANGED <<llmVars, agentVars, toolVars, baseLibVars, extVars, moreVars, restOf_acting>>

\* The observation object model_validate_json built, with its content as a
\* string of one character, or as a value that is not a string (None).
as_observation(validated) ==
    [kind |-> validated.type,
     content |-> IF "content" \in DOMAIN validated.fields /\ validated.fields["content"] # "null"
                 THEN Content(TRUE, <<validated.fields["content"]>>)
                 ELSE Content(FALSE, <<>>),
     fields |-> validated.fields]

\* The action object of a call for the kind posted.
ActionOf(kind) == [action |-> kind, path |-> <<"a">>]

\* `observation = runtime.execute(action)` (agent.py:90) for the next call
\* of the message: the client posts.
StepExecute ==
    /\ acting.at = "loop"
    /\ Len(acting.actions) = http_request.calls
    /\ ExecutePost

\* execute has returned or raised: the rest of the loop body, or the
\* exception leaves Agent.step.
StepExecuted ==
    /\ pc = "client"
    /\ acting.at = "loop"
    /\ Len(acting.actions) < http_request.calls
    /\ acting' =
          IF returned.raised # "None"
          THEN [acting EXCEPT !.at = "raised"]
          ELSE append_call(acting, ActionOf(http_request.action), as_observation(returned),
                           http_request.calls)
    /\ UNCHANGED <<llmVars, agentVars, toolVars, baseLibVars, extVars, moreVars, restOf_acting>>

\* The actions followed: ReadFile on any path, and RunBashCommand.
ActionsTaken(n) ==
    { [action |-> "read_file", path |-> p] : p \in StringsOver(PathTokens, n) }
        \cup { [action |-> "run_bash_command", path |-> <<>>] }

\* The observations returned: string contents below, at and above the
\* default maximum, and a list content.
Returned ==
    { [kind |-> "observation", content |-> Content(TRUE, [i \in 1..n |-> "a"])] :
         n \in {0, DEFAULT_MAX_LENGTH - 1, DEFAULT_MAX_LENGTH, DEFAULT_MAX_LENGTH + 1} }
        \cup { [kind |-> "observation", content |-> Content(FALSE, <<"1", "2">>)] }

\* runtime.execute(action) has returned.
InitStepCall(actions_taken, observations) ==
    \E a \in actions_taken, o \in observations :
        acting = [action |-> a, returned |-> o, at |-> "executed",
                  messages |-> <<>>, actions |-> <<>>]

\* Agent.step has appended the assistant message and enters the loop over
\* the requested calls.
InitStepLoop ==
    acting = [action |-> ActionOf("read_file"), returned |-> NoObservation, at |-> "loop",
              messages |-> <<>>, actions |-> <<>>]

(***************************************************************************)
(* AgentState.bash() (toolmaker/agent/state.py) and the bash() methods of  *)
(* the actions. A text is a string of characters; the fixed parts of the   *)
(* rendering ("# Step ", "cat ", ...) are single tokens.                   *)
(***************************************************************************)
\* remove_newlines(s): `s.replace("\n", " ").replace("\r", "")`
remove_newlines(s) ==
    LET spaced == [i \in DOMAIN s |-> IF s[i] = "\n" THEN " " ELSE s[i]]
    IN  SelectSeq(spaced, LAMBDA c : c # "\r")

\* shlex.quote(s): '' for the empty string, s itself when it holds only safe
\* characters, otherwise s between single quotes (no "'" is followed here).
shlex_quote(s) ==
    IF s = <<>> THEN <<"''">>
    ELSE IF \A i \in DOMAIN s : s[i] = "a" THEN s
    ELSE <<"'">> \o s \o <<"'">>

\* action.bash_side_effect
bash_side_effect(action) == action.action \in SideEffectActions

\* action.bash(): RunBashCommand returns its command, ReadFile `cat <path>`.
action_bash(action) ==
    IF action.action = "run_bash_command" THEN action.argument
    ELSE <<"cat ">> \o shlex_quote(action.argument)

\* The piece AgentState.bash() renders for the pair i (counted from 0).
render_pair(i, action, observation) ==
    <<"# Step ", ToString(i), ": ">> \o remove_newlines(action.reasoning) \o <<"\n">>
        \o (IF bash_side_effect(action) THEN <<>> ELSE <<"# ">>) \o action_bash(action) \o <<"\n">>
        \o <<"# observation: ">> \o remove_newlines(observation) \o <<"\n">>

RECURSIVE join_pieces(_)
\* "\n".join(pieces)
join_pieces(pieces) ==
    IF pieces = <<>> THEN <<>>
    ELSE IF Len(pieces) = 1 THEN pieces[1]
    ELSE pieces[1] \o <<"\n">> \o join_pieces(Tail(pieces))

\* AgentState.bash()
AgentState_bash(actions) ==
    join_pieces([i \in DOMAIN actions |-> render_pair(i - 1, actions[i][1], actions[i][2])])

\* The (action, observation) pairs followed: RunBashCommand and ReadFile on
\* any argument of up to n characters, one of which may be a newline; the
\* reasoning and the repr of the observation hold a newline.
TrailPairs(n) ==
    { <<[action |-> kind, argument |-> argument, reasoning |-> <<"r", "\n", "\r", "r">>],
        <<"o", "\n", "o">>>> :
         kind \in {"run_bash_command", "read_file"},
         argument \in StringsOver({"a", "\n"}, n) }

RECURSIVE Trails(_, _)
\* The audit trails of up to k pairs.
Trails(pairs, k) ==
    IF k = 0 THEN {<<>>}
    ELSE LET shorter == Trails(pairs, k - 1)
         IN  shorter \cup { Append(t, p) : t \in shorter, p \in pairs }

\* cli.py:102-104: the rendering is written to install.sh.
WriteInstallScript ==
    /\ rendering.at = "installed"
    /\ rendering' = [rendering EXCEPT !.at = "written",
                        !.script = AgentState_bash(rendering.actions)]
    /\ UNCHANGED <<llmVars, agentVars, toolVars, baseLibVars, extVars, moreVars, restOf_rendering>>

\* install_repository has returned a state with an audit trail.
InitRender(trails) ==
    \E t \in trails : rendering = [actions |-> t, at |-> "installed", script |-> <<>>]

(***************************************************************************)
(* run_tool and is_run_cached (toolmaker/run.py), called without a prefix. *)
(* The folder of a tool is a record: the name in task.yaml, the            *)
(* `installed` entry of install.json ("missing": no such file), the        *)
(* result.json files by run directory, and the run directories made. The   *)
(* sha256 of the key text is followed as the key itself.                   *)
(***************************************************************************)
\* The names a repository may be installed under, and the invocations
\* (arguments and mounts together) followed.
InstalledNames == {"i1", "i2"}
Invocations == {"a", "b"}

\* `tool_folder / "run" / sha256(f"{tool}:{installed}:{arguments}:{mount}")`
RunDir(tool, installed, invocation) == <<tool, installed, invocation>>

\* _get_run_dir: `if not installed:` reads install.json, which raises
\* FileNotFoundError when the file is absent.
get_run_dir(folder, tool, invocation, installed) ==
    IF installed # "None"
    THEN [raised |-> "None", dir |-> RunDir(tool, installed, invocation)]
    ELSE IF folder.install_json = "missing"
    THEN [raised |-> "FileNotFoundError", dir |-> <<>>]
    ELSE [raised |-> "None", dir |-> RunDir(tool, folder.install_json, invocation)]

\* is_run_cached: whether result.json exists in the run directory; False on
\* FileNotFoundError.
is_run_cached(folder, tool, invocation, installed) ==
    LET run_dir == get_run_dir(folder, tool, invocation, installed)
    IN  IF run_dir.raised = "FileNotFoundError" THEN FALSE
        ELSE run_dir.dir \in DOMAIN folder.results

\* The parameters DockerRuntimeClient.load_checkpoint declares, and the
\* arguments run_tool passes by keyword.
LoadCheckpointParameters == {"name", "tag", "image", "mounts", "gpus", "env"}
RunToolKeywords == {"reuse_existing", "mounts", "env", "build", "allow_build"}

\* The call of load_checkpoint: Python binds the arguments to the declared
\* parameters first; a keyword that names none of them raises TypeError and
\* the body, which creates the container, does not run.
load_checkpoint(keywords) ==
    IF keywords \subseteq LoadCheckpointParameters THEN "created" ELSE "TypeError"

\* ToolRunResult(**result.model_dump(), output_path=..., elapsed=...)
ToolRunResult(status, run_dir) ==
    [status |-> status, output_path |-> <<run_dir, "output">>, elapsed |-> 1]

\* What a run_tool call has done.
ToolRun(raised, value, folder, created, executed, stopped) ==
    [raised |-> raised, returned |-> value, folder |-> folder,
     created |-> created, executed |-> executed, stopped |-> stopped]

\* run_tool on a tool folder; `answer` is what run_function does in the
\* sandbox ("raise": it raises).
run_tool(folder, tool, invocation, installed, must_be_cached, answer) ==
    LET installed_name == IF installed = "None" THEN folder.task_name ELSE installed
        run_folder == get_run_dir(folder, tool, invocation, installed_name).dir
        prepared   == [folder EXCEPT !.run_folders = @ \cup {run_folder}]
        call_result == ToolRunResult(answer, run_folder)
    IN  IF run_folder \in DOMAIN folder.results
        THEN ToolRun("None", folder.results[run_folder], folder, 0, 0, 0)
        ELSE IF must_be_cached
        THEN ToolRun("RuntimeError", None, folder, 0, 0, 0)
        ELSE IF load_checkpoint(RunToolKeywords) = "TypeError"
        THEN ToolRun("TypeError", None, prepared, 0, 0, 0)
        ELSE IF answer = "raise"
        THEN ToolRun("ValidationError", None, prepared, 1, 1, 0)
        ELSE ToolRun("None", call_result,
                     [prepared EXCEPT !.results = (run_folder :> call_result) @@ @],
                     1, 1, 1)

\* One is_run_cached call, before run_tool.
IsRunCached ==
    /\ pc = "run_tool"
    /\ caching.at = "start"
    /\ caching' = [caching EXCEPT !.at = "asked",
                     !.reported = is_run_cached(caching.folder, caching.tool,
                                                caching.invocation, caching.installed)]
    /\ UNCHANGED <<llmVars, agentVars, toolVars, baseLibVars, extVars, moreVars, restOf_caching>>

\* One run_tool call with the same arguments: the first, or a second one.
RunTool ==
    /\ pc = "run_tool"
    /\ caching.at = "asked"
    /\ Len(caching.calls) < 2
    /\ \E answer \in {"success", "error", "raise"} :
          LET done == run_tool(caching.folder, caching.tool, caching.invocation,
                               caching.installed, caching.must_be_cached, answer)
          IN  caching' = [caching EXCEPT !.folder = done.folder,
                                         !.calls = Append(@, done)]
    /\ UNCHANGED <<llmVars, agentVars, toolVars, baseLibVars, extVars, moreVars, restOf_caching>>

\* The arguments of the calls and the tool folder they find: any name in
\* task.yaml, any install.json, and result.json in any of the run directories.
InitRunTool(installed_names, invocations) ==
    \E task_name \in installed_names, install_json \in installed_names \cup {"missing"},
       installed \in installed_names \cup {"None"}, invocation \in invocations,
       must_be_cached \in BOOLEAN,
       dirs \in SUBSET { RunDir("t", i, v) : i \in installed_names, v \in invocations } :
          LET folder == [task_name |-> task_name, install_json |-> install_json,
                         results |-> [d \in dirs |-> ToolRunResult("success", d)],
                         run_folders |-> dirs]
          IN  caching = [folder |-> folder, found |-> folder, tool |-> "t",
                         invocation |-> invocation, installed |-> installed,
                         must_be_cached |-> must_be_cached, at |-> "start",
                         reported |-> FALSE, calls |-> <<>>]

\* The variables of the parts a specification does not follow, at rest.
IdleLib(own) ==
    /\ IF own = "heap" THEN TRUE ELSE InitHeap
    /\ IF own = "truncate" THEN TRUE
       ELSE observation_arg = NoObservation /\ max_length_arg = 0
            /\ truncated_observation = NoObservation
    /\ registry = <<>>
    /\ registered = <<>>
    /\ IF own = "runtime" THEN TRUE ELSE InitRuntime
    /\ IF own = "lock" THEN TRUE ELSE InitLock
    /\ IF own = "bash" THEN TRUE ELSE InitBash({NoProgram})
    /\ IF own = "env" THEN TRUE ELSE InitEnv({<<>>}) /\ envs.allowed = {} /\ DOMAIN envs.env = {}
    /\ IF own = "install" THEN TRUE ELSE InitInstall({<<>>})
    /\ IF own = "retry" THEN TRUE ELSE InitRetry({"gpt-4o"})
    /\ IF own = "step" THEN TRUE ELSE InitStepCall({[action |-> "run_bash_command", path |-> <<>>]}, {NoObservation})
    /\ IF own = "render" THEN TRUE ELSE InitRender({<<>>})
    /\ IF own = "run_tool" THEN TRUE ELSE InitRunTool({"i1"}, {"a"}) /\ caching.installed = "i1" /\ ~caching.must_be_cached /\ caching.folder.install_json = "i1" /\ DOMAIN caching.folder.results = {}

(***************************************************************************)
(* The specifications.                                                     *)
(***************************************************************************)
InitAgent ==
    /\ state = AgentState(None, <<>>, <<>>)
    /\ steps = 0
    /\ max_steps = 0
    /\ modelCalls = 0
    /\ runtime = Sandbox(0)
    /\ error = "None"
    /\ last_step = NoStep

InitTool ==
    /\ phase = "INIT"
    /\ iteration = 0
    /\ max_iterations = 0
    /\ state_checkpoint = AgentState(None, <<>>, <<>>)
    /\ code = None
    /\ problem_summaries = <<>>
    /\ function = None
    /\ output = None
    /\ assessment = None
    /\ result = None
    /\ counts = [p \in Phases |-> 0]
    /\ unsuccessful = 0
    /\ model_call = NoModelCall

\* SpecLLM: one LLM instance, any sequence of completion calls.
InitSpecLLM == InitLLM /\ InitAgent /\ InitTool /\ IdleLib("none") /\ pc = "llm"

NextLLM == LLMCompletion

SpecLLM == InitSpecLLM /\ [][NextLLM]_vars

\* SpecState: any sequence of AgentState method calls, checkpoints and rewinds.
InitSpecState == InitLLM /\ InitAgent /\ InitTool /\ IdleLib("heap") /\ InitHeap /\ pc = "objects"

NextState ==
    \/ CallMethod
    \/ HoldCheckpoint
    \/ RewindToCheckpoint

SpecState == InitSpecState /\ [][NextState]_vars

\* SpecTruncate: one truncate_observation call on any observation and limit.
InitSpecTruncate ==
    /\ InitLLM /\ InitAgent /\ InitTool /\ IdleLib("truncate")
    /\ pc = "truncate"
    /\ observation_arg \in Observations
    /\ max_length_arg \in 0..MaxLength
    /\ truncated_observation = NoObservation

SpecTruncate == InitSpecTruncate /\ [][TruncateObservation]_vars

\* SpecRegistry: any sequence of register_action calls on the empty registry.
InitSpecRegistry == InitLLM /\ InitAgent /\ InitTool /\ IdleLib("registry") /\ pc = "registry"

SpecRegistry == InitSpecRegistry /\ [][RegisterAction]_vars

\* SpecRuntime: any sequence of execute and run_function calls of one client
\* against one server.
NextRuntime ==
    \/ ExecutePost
    \/ ServeExecute
    \/ ExecuteReturn
    \/ RunFunctionPost
    \/ ServeRun
    \/ RunFunctionReturn

InitSpecRuntime ==
    /\ InitLLM /\ InitAgent /\ InitTool /\ IdleLib("runtime") /\ InitRuntime
    /\ pc = "client"

SpecRuntime == InitSpecRuntime /\ [][NextRuntime]_vars

\* SpecLock: requests arriving at one server in any interleaving.
InitSpecLock ==
    /\ InitLLM /\ InitAgent /\ InitTool /\ IdleLib("lock") /\ InitLock
    /\ pc = "lock"

NextLock ==
    \/ Arrive
    \/ Resume
    \/ Finish

SpecLock == InitSpecLock /\ [][NextLock]_vars

\* SpecLockFair: the same requests on an event loop that runs every coroutine
\* that is ready (a woken waiter resumes) and with handlers that terminate.
\* Nothing obliges a request to arrive.
SpecLockFair == InitSpecLock /\ [][NextLock]_vars /\ WF_vars(Resume) /\ WF_vars(Finish)

\* SpecBash: one run_bash_command call, on any command.
InitSpecBash == InitLLM /\ InitAgent /\ InitTool /\ IdleLib("bash") /\ InitBash(Programs) /\ pc = "bash"

NextBash ==
    \/ ProcessWrite
    \/ ProcessClose
    \/ ProcessExit
    \/ ReadBlock
    \/ ReadEnd
    \/ Wait

SpecBash == InitSpecBash /\ [][NextBash]_vars

\* SpecEnv: one substitute_env_vars call or one run_function call, on any
\* string, environment and allow-list.
InitSpecEnv ==
    /\ InitLLM /\ InitAgent /\ InitTool /\ IdleLib("env") /\ InitEnv(Templates(MaxPieces))
    /\ pc = "env"

NextEnv ==
    \/ SubstituteEnvVars
    \/ RunFunctionSubstitute
    \/ ReturnFunction

SpecEnv == InitSpecEnv /\ [][NextEnv]_vars

\* SpecInstall: one install_repository call, for any repository name and any
\* path reported by the agent.
InitSpecInstall ==
    /\ InitLLM /\ InitAgent /\ InitTool /\ IdleLib("install")
    /\ InitInstall(StringsOver(NameChars, MaxName))
    /\ pc = "install"

NextInstall ==
    \/ InstallAgentReturns
    \/ InstallAgentRaises
    \/ InstallCheck

SpecInstall == InitSpecInstall /\ [][NextInstall]_vars

\* SpecRetry: one call of the function completion_factory returns, for any
\* model and any outcomes of the attempts.
InitSpecRetry ==
    /\ InitLLM /\ InitAgent /\ InitTool /\ IdleLib("retry")
    /\ InitRetry({"o3-mini", "claude", "gpt-4o"})
    /\ pc = "retry"

NextRetry ==
    \/ AttemptReturns
    \/ AttemptRaises

SpecRetry == InitSpecRetry /\ [][NextRetry]_vars

\* SpecStepCall: the body of Agent.step's loop for one call, for any of the
\* actions and observations followed.
InitSpecStepCall ==
    /\ InitLLM /\ InitAgent /\ InitTool /\ IdleLib("step")
    /\ InitStepCall(ActionsTaken(MaxPathTokens), Returned)
    /\ pc = "step"

NextStepCall == StepCall

SpecStepCall == InitSpecStepCall /\ [][NextStepCall]_vars

\* SpecStepLoop: the loop over the calls of one message, each executed by
\* the client against the server.
InitSpecStepLoop ==
    /\ InitLLM /\ InitAgent /\ InitTool /\ IdleLib("step")
    /\ InitStepLoop
    /\ pc = "client"

NextStepLoop ==
    \/ StepExecute
    \/ ServeExecute
    \/ ExecuteReturn
    \/ StepExecuted

SpecStepLoop == InitSpecStepLoop /\ [][NextStepLoop]_vars

\* SpecRender: the install script of any audit trail.
InitSpecRender ==
    /\ InitLLM /\ InitAgent /\ InitTool /\ IdleLib("render")
    /\ InitRender(Trails(TrailPairs(MaxArgument), MaxTrail))
    /\ pc = "render"

NextRender == WriteInstallScript

SpecRender == InitSpecRender /\ [][NextRender]_vars

\* SpecRunTool: is_run_cached and then up to two run_tool calls with the same
\* arguments, on any tool folder.
InitSpecRunTool ==
    /\ InitLLM /\ InitAgent /\ InitTool /\ IdleLib("run_tool")
    /\ InitRunTool(InstalledNames, Invocations)
    /\ pc = "run_tool"

NextRunTool ==
    \/ IsRunCached
    \/ RunTool

SpecRunTool == InitSpecRunTool /\ [][NextRunTool]_vars

\* The states Agent.run may be called with: with or without earlier messages
\* and an earlier response.
RunArguments ==
    { AgentState(None, <<>>, <<>>),
      AgentState(Parsed, <<>>, <<Prompt("system", "system", {}), Prompt("user", "task", {})>>) }

\* SpecAgent: one Agent.run call, on any state and any step budget.
InitSpecAgent ==
    /\ InitLLM /\ InitTool /\ IdleLib("none")
    /\ pc = "agent_begin"
    /\ state \in RunArguments
    /\ steps = 0
    /\ max_steps \in 0..MaxSteps
    /\ modelCalls = 0
    /\ runtime = Sandbox(1)
    /\ error = "None"
    /\ last_step = NoStep

NextAgent ==
    \/ AgentRunBegin
    \/ AgentRunStep
    \/ AgentRunCompletionRaises
    \/ AgentRunExhausted

SpecAgent == InitSpecAgent /\ [][NextAgent]_vars

\* Spec: one make_tool call, with any iteration budget. The agent runs inside
\* it have the default step budget.
Init ==
    /\ InitLLM /\ IdleLib("none")
    /\ pc = "make_tool"
    /\ state = AgentState(None, <<>>, <<>>)
    /\ steps = 0
    /\ max_steps = RunMaxSteps
    /\ modelCalls = 0
    /\ runtime = Sandbox(0)
    /\ error = "None"
    /\ last_step = NoStep
    /\ phase = "INIT"
    /\ iteration = 0
    /\ max_iterations \in 0..MaxIterations
    /\ state_checkpoint = AgentState(None, <<>>, <<>>)
    /\ code = None
    /\ problem_summaries = <<>>
    /\ function = None
    /\ output = None
    /\ assessment = None
    /\ result = None
    /\ counts = [p \in Phases |-> 0]
    /\ unsuccessful = 0
    /\ model_call = NoModelCall

Next ==
    \/ LoadCheckpoint
    \/ ExploreBegin
    \/ ExploreStep
    \/ ExploreExhausted
    \/ MakePlan
    \/ ImplementFunction
    \/ Checkpoint
    \/ ResetIteration
    \/ Execute
    \/ Assess
    \/ DiagnoseBegin
    \/ DiagnoseStep
    \/ DiagnoseExhausted
    \/ RewriteFunction
    \/ SummarizeProblem
    \/ MaxIterationsReached
    \/ Finally

Spec == Init /\ [][Next]_vars

(***************************************************************************)
(* The properties of make_tool's repair loop.                              *)
(***************************************************************************)
\* The attempts assessed so far: the unsuccessful ones and, when the last
\* assessment is successful, that one.
Succeeded == assessment # None /\ assessment.successful

\* C1: when attempts 1..k-1 are assessed unsuccessful and attempt k is assessed
\* successful (1 <= k <= max_iterations), make_tool returns without an error
\* after exactly k run_function executions and exactly k-1 invocations each of
\* diagnose, rewrite_function and summarize_problem, and the FunctionCall it
\* returns carries the code that attempt k executed: the code written by the
\* REWRITE of attempt k-1, or by IMPLEMENT when k = 1.
C1_SuccessAtAttemptK ==
    Succeeded =>
        LET k == unsuccessful + 1
        IN  /\ 1 <= k /\ k <= max_iterations
            /\ pc \in {"finally", "done"}
            /\ error = "None"
            /\ counts["EXECUTE"] = k
            /\ counts["DIAGNOSE"] = k - 1
            /\ counts["REWRITE"] = k - 1
            /\ counts["SUMMARIZE"] = k - 1
            /\ result = function
            /\ state.response = result
            /\ result = FunctionCall(Code(k - 2))
            /\ output = FunctionCallResult("success", k - 1)
            /\ assessment.iter = k - 1

\* make_tool has returned the FunctionCall of its second attempt.
C1_Witness ==
    /\ pc = "done"
    /\ Succeeded
    /\ unsuccessful = 1
    /\ counts["EXECUTE"] = 2
    /\ result = FunctionCall(Code(0))

\* C2: when every one of the max_iterations attempts is assessed unsuccessful
\* and the repair phases that follow complete, make_tool raises "Max iterations
\* reached" after exactly max_iterations executions and exactly max_iterations
\* invocations each of diagnose, rewrite_function and summarize_problem; in no
\* state with max_iterations unsuccessful assessments is a FunctionCall returned.
C2_Exhaustion ==
    /\ error = "Max iterations reached" =>
          /\ unsuccessful = max_iterations
          /\ counts["EXECUTE"] = max_iterations
          /\ counts["DIAGNOSE"] = max_iterations
          /\ counts["REWRITE"] = max_iterations
          /\ counts["SUMMARIZE"] = max_iterations
          /\ result = None
    /\ (pc = "done" /\ counts["CHECKPOINT"] = 1 /\ Len(problem_summaries) = max_iterations) =>
          error = "Max iterations reached"
    /\ (counts["CHECKPOINT"] = 1 /\ unsuccessful = max_iterations) =>
          /\ result = None
          /\ ~Succeeded

\* make_tool has ended with the exhaustion error after two failed attempts.
C2_Witness ==
    /\ pc = "done"
    /\ error = "Max iterations reached"
    /\ max_iterations = 2
    /\ unsuccessful = 2
    /\ counts["SUMMARIZE"] = 2

\* C4: in every iteration the candidate is executed on the conversation of the
\* checkpoint, followed by the reset notice only, and on a sandbox obtained by
\* a reset_runtime() call of this iteration that has received no request; the
\* first request that sandbox receives is the candidate's run.
C4_FreshSandboxBeforeExecute ==
    /\ pc = "execute" =>
          /\ state = append_message(state_checkpoint, ResetPrompt)
          /\ runtime.generation = iteration + 2
          /\ runtime.requests = <<>>
          /\ runtime.stops = 0
          /\ counts["EXECUTE"] = iteration
    /\ pc = "assess" =>
          /\ runtime.generation = iteration + 2
          /\ runtime.requests = <<"run">>
          /\ counts["EXECUTE"] = iteration + 1

\* The second iteration has run its candidate on the third sandbox.
C4_Witness ==
    /\ pc = "assess"
    /\ iteration = 1
    /\ runtime = sent(Sandbox(3), <<"run">>)

\* The conversation an iteration has added to the checkpoint.
IterationPcs == {"execute", "assess", "diagnose", "diagnose_loop", "rewrite", "summarize"}

IterationMessages ==
    SubSeq(state.messages, Len(state_checkpoint.messages) + 1, Len(state.messages))

\* The data the running iteration has read: what its prompts embed and, once
\* EXECUTE has run, the code it sent to the sandbox.
Reads ==
    UNION {m.refs : m \in Range(IterationMessages)}
        \cup (IF pc = "execute" THEN {} ELSE {function.code})

\* A datum an earlier iteration produced.
Carried(d) == d.iter >= 0 /\ d.iter < iteration

\* The conversation at the start of an iteration: the checkpoint, then the
\* reset notice of this iteration.
RewoundAtStart == pc = "execute" => state = append_message(state_checkpoint, ResetPrompt)

\* C5 as stated: at the start of an iteration the conversation is the
\* post-IMPLEMENT checkpoint, and the only data of an earlier iteration that an
\* iteration reads are problem summaries.
C5_OnlySummariesPersist ==
    /\ RewoundAtStart
    /\ pc \in IterationPcs => \A d \in Reads : Carried(d) => d.kind = "summary"

\* C5, amended: at the start of an iteration the conversation is the
\* post-IMPLEMENT checkpoint (followed by the reset notice), every summary of
\* an earlier iteration is kept, and the only data of an earlier iteration that
\* an iteration reads are the problem summaries and the candidate code written
\* by the REWRITE of the iteration before.
C5_SummariesAndCodePersist ==
    /\ RewoundAtStart
    /\ pc \in IterationPcs =>
          /\ problem_summaries = [i \in 1..iteration |-> Summary(i - 1)]
          /\ SubSeq(state.messages, 1, Len(state_checkpoint.messages))
                 = state_checkpoint.messages
          /\ \A d \in Reads :
                Carried(d) => d.kind = "summary" \/ d = Code(iteration - 1)

\* The DIAGNOSE of the second iteration has read the summary and the code of
\* the first.
C5_Witness ==
    /\ pc = "diagnose_loop"
    /\ iteration = 1
    /\ {Summary(0), Code(0)} \subseteq Reads

\* The order in which one phase may follow another.
PhaseOrder ==
    { <<"INIT", "EXPLORE">>, <<"EXPLORE", "PLAN">>, <<"PLAN", "IMPLEMENT">>,
      <<"IMPLEMENT", "CHECKPOINT">>, <<"CHECKPOINT", "EXECUTE">>,
      <<"EXECUTE", "ASSESS">>, <<"ASSESS", "DIAGNOSE">>, <<"DIAGNOSE", "REWRITE">>,
      <<"REWRITE", "SUMMARIZE">>, <<"SUMMARIZE", "EXECUTE">> }

\* C6: a phase is entered only in the order EXPLORE, PLAN, IMPLEMENT,
\* checkpoint (each once), then per iteration EXECUTE, ASSESS, DIAGNOSE,
\* REWRITE, SUMMARIZE; DIAGNOSE is entered only after an unsuccessful
\* assessment of the same iteration, and no phase is entered after a
\* successful assessment, after the exhaustion error or after any other error.
C6_PhaseOrder ==
    [][ counts' # counts =>
          /\ <<phase, phase'>> \in PhaseOrder
          /\ counts' = [counts EXCEPT ![phase'] = @ + 1]
          /\ \A p \in {"EXPLORE", "PLAN", "IMPLEMENT", "CHECKPOINT"} : counts'[p] <= 1
          /\ ~Succeeded
          /\ result = None
          /\ error = "None"
          /\ phase' = "DIAGNOSE" =>
                /\ assessment = FunctionExecutionAssessment(FALSE, iteration)
                /\ counts["ASSESS"] = iteration + 1
          /\ phase' = "EXECUTE" => counts["EXECUTE"] = iteration
          /\ phase' \in {"EXECUTE", "ASSESS", "DIAGNOSE", "REWRITE", "SUMMARIZE"} =>
                iteration < max_iterations
      ]_vars

\* make_tool has returned from its second iteration: the last phase entered is
\* the ASSESS that succeeded, after one DIAGNOSE, REWRITE and SUMMARIZE.
C6_Witness ==
    /\ pc = "done"
    /\ Succeeded
    /\ phase = "ASSESS"
    /\ counts = [p \in Phases |-> IF p \in {"EXECUTE", "ASSESS"} THEN 2 ELSE 1]

\* C7: when the function-call result has status "error", ASSESS answers
\* successful = false and calls no model; ASSESS calls the model only on a
\* result with status "success".
C7_AssessShortCircuit ==
    /\ (phase = "ASSESS" /\ output.status = "error") =>
          /\ assessment = FunctionExecutionAssessment(FALSE, iteration)
          /\ model_call # ModelCall("ASSESS")
          /\ pc = "diagnose"
          /\ error = "None"
    /\ model_call.by = "ASSESS" =>
          output = FunctionCallResult("success", model_call.iter)

\* The ASSESS of the second iteration has answered for a result with status
\* "error"; the last model call is the SUMMARIZE of the first iteration.
C7_Witness ==
    /\ phase = "ASSESS"
    /\ output = FunctionCallResult("error", 1)
    /\ assessment = FunctionExecutionAssessment(FALSE, 1)
    /\ model_call = [by |-> "SUMMARIZE", iter |-> 0]

(***************************************************************************)
(* The property of the cost ceiling (SpecLLM).                             *)
(***************************************************************************)
\* C3: LLM.completion calls the provider only when the estimated prompt cost
\* plus the accumulated total cost does not exceed MAX_COST; otherwise it
\* raises the cost-limit error, calls no provider, and leaves the token and
\* cost accounting of every model as it was.
C3_CostCeiling ==
    [][ LLMCompletion =>
          LET estimate == llm_last'.prompt_cost + total_cost(cost)
          IN  /\ providerCalls' # providerCalls => estimate <= MAX_COST
              /\ estimate <= MAX_COST =>
                    /\ providerCalls' = providerCalls + 1
                    /\ llm_last'.outcome # "CostLimitExceeded"
              /\ estimate > MAX_COST =>
                    /\ llm_last'.outcome = "CostLimitExceeded"
                    /\ providerCalls' = providerCalls
                    /\ tokens' = tokens
                    /\ cost' = cost
      ]_vars

\* A call has been refused for its estimate, below the ceiling: the accounting
\* is that of the calls before it.
C3_Witness ==
    /\ llm_last.outcome = "CostLimitExceeded"
    /\ providerCalls = 2
    /\ total_cost(cost) = 4
    /\ llm_last.total_before = 4
    /\ llm_last.prompt_cost = 3
    /\ total_prompt_tokens(tokens) = 2

(***************************************************************************)
(* The properties of Agent.run and Agent.step (SpecAgent).                 *)
(***************************************************************************)
\* C8: Agent.run makes at most max_steps model calls; while it loops the
\* response is null, and it returns after the first step that leaves a
\* non-null response; when max_steps steps have completed without one it
\* raises AgentExhaustedError, after exactly max_steps steps and model calls
\* (none when max_steps = 0).
C8_RunBound ==
    /\ modelCalls <= max_steps
    /\ steps <= modelCalls
    /\ pc = "agent_loop" =>
          /\ state.response = None
          /\ modelCalls = steps
    /\ pc = "returned" =>
          /\ state.response # None
          /\ last_step.before.response = None
          /\ last_step.status = "ok"
          /\ modelCalls = steps
          /\ steps >= 1
          /\ error = "None"
    /\ error = "AgentExhaustedError" =>
          /\ pc = "raised"
          /\ steps = max_steps
          /\ modelCalls = max_steps
          /\ state.response = None
    /\ (pc = "raised" /\ steps = max_steps) => error = "AgentExhaustedError"

\* A run with a budget of two steps has raised AgentExhaustedError after two
\* steps that executed tool calls.
C8_Witness ==
    /\ error = "AgentExhaustedError"
    /\ max_steps = 2
    /\ modelCalls = 2
    /\ Len(state.actions) >= 2

\* The calls requested by the provider message of the last step.
RequestedCalls(message) ==
    IF message.tool_calls.present THEN message.tool_calls.calls ELSE <<>>

\* A call that names no action of the agent, or whose arguments violate the
\* schema of its action.
Malformed(call) == call.name \notin ActionRegistry \/ ~call.args_ok

\* C9 as stated: a malformed tool call of a step surfaces as a tool-error
\* observation in the conversation under the id of the call, and neither the
\* step nor the run is aborted.
C9_MalformedCallObserved ==
    \A i \in 1..Len(RequestedCalls(last_step.message)) :
        LET call == RequestedCalls(last_step.message)[i]
        IN  Malformed(call) =>
                /\ last_step.status = "ok"
                /\ pc # "raised"
                /\ \E j \in 1..Len(state.messages) :
                      /\ state.messages[j].role = "tool"
                      /\ state.messages[j].tool_call_id = call.id
                      /\ state.messages[j].content.kind = "FunctionCallErrorObservation"

\* The tool messages of the conversation st that answer the call id.
ToolMessagesFor(st, id) ==
    {j \in 1..Len(st.messages) :
        st.messages[j].role = "tool" /\ st.messages[j].tool_call_id = id}

\* C10: a step that returns, on a provider message requesting n tool calls,
\* has appended one assistant message and then n tool messages in call order,
\* each with the id of its call and the observation of its action, and n
\* (action, observation) pairs in the same order; when n = 0 the tool-call
\* field of the assistant message is absent, never an empty list. In the
\* state of the run every call id requested by an assistant message has
\* exactly one tool message, after that assistant message.
C10_StepAppends ==
    /\ last_step.status = "ok" =>
          LET before == last_step.before
              calls  == RequestedCalls(last_step.message)
              n      == Len(calls)
              m      == Len(before.messages)
              a      == Len(before.actions)
          IN  /\ Len(state.messages) = m + 1 + n
              /\ SubSeq(state.messages, 1, m) = before.messages
              /\ state.messages[m + 1].role = "assistant"
              /\ state.messages[m + 1].tool_calls =
                     (IF n = 0 THEN NoToolCalls ELSE ToolCalls(calls))
              /\ Len(state.actions) = a + n
              /\ SubSeq(state.actions, 1, a) = before.actions
              /\ \A i \in 1..n :
                    /\ state.messages[m + 1 + i].role = "tool"
                    /\ state.messages[m + 1 + i].tool_call_id = calls[i].id
                    /\ state.actions[a + i] =
                           <<calls[i].name, state.messages[m + 1 + i].content>>
              /\ state.response = last_step.message.parsed
    /\ \A j \in 1..Len(state.messages) :
          LET msg == state.messages[j]
          IN  msg.role = "assistant" =>
                 /\ msg.tool_calls.present => Len(msg.tool_calls.calls) > 0
                 /\ \A i \in 1..Len(msg.tool_calls.calls) :
                       /\ Cardinality(ToolMessagesFor(state, msg.tool_calls.calls[i].id)) = 1
                       /\ \A k \in ToolMessagesFor(state, msg.tool_calls.calls[i].id) : k > j

\* A step on a message with an empty tool-call list has returned, after a step
\* on a message with two tool calls.
C10_Witness ==
    /\ last_step.status = "ok"
    /\ last_step.message.tool_calls = ToolCalls(<<>>)
    /\ Len(state.messages) = Len(last_step.before.messages) + 1
    /\ \E j \in 1..Len(state.messages) :
          /\ state.messages[j].role = "assistant"
          /\ Len(state.messages[j].tool_calls.calls) = 2

\* C11 as stated: the state a step returns holds in its messages field the
\* new messages only (the assistant message and the tool messages of the
\* step), without the messages of the state it was called with.
C11_OnlyNewMessages ==
    last_step.status = "ok" =>
        /\ Len(state.messages) = 1 + Len(RequestedCalls(last_step.message))
        /\ state.messages[1].role = "assistant"

(***************************************************************************)
(* The property of AgentState objects (SpecState).                         *)
(***************************************************************************)
\* C12: no method of AgentState changes an existing object: each call leaves
\* the messages, actions and response of every object created before it,
\* its receiver included, as they were, and returns a new object; so the
\* object held as checkpoint has the fields it had when the reference was
\* taken, after any number of later calls and rewinds.
C12_NeverMutatedInPlace ==
    [][ /\ Len(heap') >= Len(heap)
        /\ \A ref \in 1..Len(heap) : heap'[ref] = heap[ref]
        /\ CallMethod => receiver' = Len(heap) + 1
        /\ checkpoint_ref' # 0 => heap'[checkpoint_ref'] = checkpoint_value'
      ]_vars

\* A checkpoint is held while the caller's state has moved on by two calls
\* that appended messages.
C12_Witness ==
    /\ checkpoint_ref # 0
    /\ receiver > checkpoint_ref + 1
    /\ Len(heap[checkpoint_ref].messages) > 0
    /\ Len(heap[receiver].messages) > Len(heap[checkpoint_ref].messages)
    /\ heap[checkpoint_ref] = checkpoint_value

(***************************************************************************)
(* The properties of truncate_observation (SpecTruncate).                  *)
(***************************************************************************)
\* C13: when the content of the observation (its JSON rendering when it is
\* not a string) is at most max_length long, truncate_observation returns the
\* observation as it is: the same content, of the same type.
C13_ShortContentUnchanged ==
    (pc = "truncated" /\ Len(content_text(observation_arg)) <= max_length_arg) =>
        truncated_observation = observation_arg

\* A list content whose rendering is exactly max_length long has been
\* returned as the list it was.
C13_Witness ==
    /\ pc = "truncated"
    /\ ~observation_arg.content.is_str
    /\ Len(content_text(observation_arg)) = max_length_arg
    /\ truncated_observation.content = Content(FALSE, <<"1">>)

\* t occurs in s as a contiguous substring.
Occurs(t, s) ==
    \E i \in 0..(Len(s) - Len(t)) : SubSeq(s, i + 1, i + Len(t)) = t

\* The number of tokens of the note: what truncate_str adds around the kept
\* parts.
NoteSize == Len(truncate_str(<<"a", "a">>, 1)) - 1

\* C14 as stated: for content longer than max_length (any max_length >= 0) the
\* result contains the first and the last floor(max_length / 2) characters of
\* the original as contiguous substrings, the '<truncated/>' marker and the
\* original length, does not contain the whole original, and is at most
\* max_length plus the size of the note long.
C14_TruncatedContent ==
    (pc = "truncated" /\ Len(content_text(observation_arg)) > max_length_arg) =>
        LET s == content_text(observation_arg)
            t == truncated_observation.content.value
            half == max_length_arg \div 2
        IN  /\ truncated_observation.content.is_str
            /\ Occurs(SubSeq(s, 1, half), t)
            /\ Occurs(SubSeq(s, Len(s) - half + 1, Len(s)), t)
            /\ Occurs(<<"<truncated/>">>, t)
            /\ Occurs(<<ToString(Len(s))>>, t)
            /\ ~Occurs(s, t)
            /\ Len(t) <= max_length_arg + NoteSize

(***************************************************************************)
(* The property of the action registry (SpecRegistry).                     *)
(***************************************************************************)
\* The descriptor registered last under tag in the calls so far.
LatestRegistered(calls, tag) ==
    LET last == CHOOSE i \in 1..Len(calls) :
                   /\ calls[i].action = tag
                   /\ \A j \in (i + 1)..Len(calls) : calls[j].action # tag
    IN  calls[last]

\* C15: after any sequence of register_action calls the registry binds exactly
\* the tags registered, each to the descriptor registered last under it, and
\* a call changes the binding of no other tag.
C15_LastRegistrationWins ==
    [][ RegisterAction =>
          LET action == registered'[Len(registered')]
          IN  /\ DOMAIN registry' = {registered'[i].action : i \in 1..Len(registered')}
              /\ \A tag \in DOMAIN registry' :
                    registry'[tag] = LatestRegistered(registered', tag)
              /\ registry'[action.action] = action
              /\ \A tag \in DOMAIN registry \ {action.action} :
                    registry'[tag] = registry[tag]
      ]_vars

\* A tag has been registered twice, with a registration of the other tag in
\* between; the registry binds it to the second descriptor.
C15_Witness ==
    /\ Len(registered) = 3
    /\ registered[1] = [action |-> "read_file", class |-> "A"]
    /\ registered[2].action = "write_file"
    /\ registered[3] = [action |-> "read_file", class |-> "B"]
    /\ registry["read_file"].class = "B"
    /\ registry["write_file"] = registered[2]

(***************************************************************************)
(* The properties of the sandbox over HTTP (SpecRuntime).                  *)
(***************************************************************************)
\* An execute call has returned or raised.
Executed == pc = "client" /\ http_request.endpoint = "execute"

\* C16: whenever the server answers an action execution with status 500,
\* execute yields an error observation, whatever the action kind and the
\* body of the response, and never the declared observation type of the kind.
C16_ErrorObservationOn500 ==
    (Executed /\ http_response.status_code = 500)
        => /\ returned.raised = "None"
           /\ returned.type = "FunctionCallErrorObservation"

\* C17: execute deserializes every response whose status is not 200 as a
\* structured error observation. Stated for the statuses other than 200 and
\* 500 (a rejected request body, 422); status 500 is the case of C16.
C17_ErrorObservationOnNonSuccess ==
    (Executed /\ http_response.status_code \notin {200, 500})
        => /\ returned.raised = "None"
           /\ returned.type = "FunctionCallErrorObservation"

\* The server has answered a /run request.
Served == http_request.endpoint = "run" /\ pc \in {"run_served", "client"}

\* The file holds a JSON object with a result.
WellFormed(file) == file.exists /\ file.text.json /\ "result" \in DOMAIN file.text.fields

\* The response carries a FunctionCallResult of this status.
IsResult(status) ==
    /\ http_response.status_code = 200
    /\ http_response.text.json
    /\ "status" \in DOMAIN http_response.text.fields
    /\ http_response.text.fields["status"] = status

\* C18: /run answers status "success", with the value of the output file as
\* result, exactly when the function runner exits 0 and has written a
\* well-formed output file (a file left by an earlier run does not count);
\* whenever the runner exits non-zero it answers status "error" with a result
\* text that embeds the exit code and with the transcript as stdout.
C18_RunResult ==
    Served =>
        /\ IsResult("success") <=> (process.return_code = 0 /\ WellFormed(process.wrote))
        /\ IsResult("success") =>
              http_response.text.fields["result"] = process.wrote.text.fields["result"]
        /\ process.return_code # 0 =>
              /\ IsResult("error")
              /\ http_response.text.fields["result"] =
                    (IF process.return_code = 1 THEN "Process failed with return code 1"
                                                ELSE "Process failed with return code 2")
              /\ http_response.text.fields["stdout"] = process.output

C18_Witness ==
    /\ Served /\ pc = "client"
    /\ IsResult("success")
    /\ returned.type = "FunctionCallResult"
    /\ WellFormed(process.stale)
    /\ process.stale # process.wrote

\* C19: when the function runner exits 0 but its output file is missing or
\* malformed, the server answers with no FunctionCallResult, run_function
\* raises instead of returning a status, and the request is posted once.
C19_MissingOutputIsFatal ==
    (Served /\ process.return_code = 0 /\ ~WellFormed(process.wrote)) =>
        /\ http_response.status_code = 500
        /\ ~IsResult("success") /\ ~IsResult("error")
        /\ http_request.posts = 1
        /\ pc = "client" => (returned.raised = "ValidationError" /\ returned.type = "None")

C19_Witness ==
    /\ Served /\ pc = "client"
    /\ process.return_code = 0
    /\ ~process.wrote.exists
    /\ WellFormed(process.stale)
    /\ returned.raised = "ValidationError"

(***************************************************************************)
(* The property of the request lock (SpecLock).                            *)
(***************************************************************************)
\* The requests whose handler is in progress.
InProgress == { r \in 1..MaxArrivals : arrivals[r].at = "handler" }

\* C20: within one server at most one request handler is in progress at any
\* time: in every interleaving of arriving /execute and /run requests, a
\* handler starts only after the handler started before it has finished.
C20_OneHandlerAtATime ==
    /\ Cardinality(InProgress) <= 1
    /\ \A i \in 1..Len(log) :
          IF i % 2 = 1
          THEN log[i].event = "start"
          ELSE log[i].event = "finish" /\ log[i].request = log[i - 1].request

C20_Witness ==
    \E r \in 1..MaxArrivals, q \in 1..MaxArrivals :
        /\ arrivals[r].waited /\ arrivals[r].at = "returned" /\ arrivals[r].endpoint = "run"
        /\ arrivals[q].waited /\ arrivals[q].at = "handler" /\ arrivals[q].endpoint = "execute"

Transcript == join(display_lines(bash.screen, ScreenHeight))

HasNote == \E i \in 1..Len(bash.out) : bash.out[i] = "NOTE"

\* The last line of the transcript, stripped of surrounding whitespace,
\* begins with "EOFError".
LastLineIsEOFError ==
    \E i \in 1..Len(Transcript) :
        /\ Transcript[i] = "EOFError"
        /\ \/ i > 1 /\ Transcript[i - 1] = "\n"
           \/ \A j \in 1..(i - 1) : Transcript[j] \in {" ", "\n"}
        /\ \A j \in (i + 1)..Len(Transcript) :
              Transcript[j] = "\n" => \A k \in j..Len(Transcript) : Transcript[k] \in {" ", "\n"}

TranscriptLines == display_lines(bash.screen, ScreenHeight)

Stripped(row) ==
    SubSeq(row, 1, CHOOSE n \in 0..Len(row) :
                      /\ n = 0 \/ row[n] # " "
                      /\ \A j \in (n + 1)..Len(row) : row[j] = " ")

NonBlank(rendered) == SelectSeq(rendered, LAMBDA x : x # <<>>)

\* C23: the transcript of _record_stream has at most screen_height lines of
\* at most screen_width characters, no line ends in whitespace, no two
\* blank lines follow each other, and the non-blank lines of the screen
\* are all there, in their order.
C23_TranscriptBounded ==
    bash.at \in {"waiting", "returned"} =>
        /\ Len(TranscriptLines) <= ScreenHeight
        /\ \A i \in 1..Len(TranscriptLines) :
              /\ Len(TranscriptLines[i]) <= ScreenWidth
              /\ TranscriptLines[i] # <<>>
                    => TranscriptLines[i][Len(TranscriptLines[i])] \notin {" ", "\n"}
              /\ i > 1 => ~(TranscriptLines[i - 1] = <<>> /\ TranscriptLines[i] = <<>>)
        /\ NonBlank(TranscriptLines)
              = NonBlank([i \in 1..Len(bash.screen) |-> Stripped(bash.screen[i])])

C23_Witness ==
    /\ bash.at = "returned"
    /\ TranscriptLines # <<>>
    /\ Len(TranscriptLines) < Len(bash.screen)
    /\ \E i \in 1..Len(bash.screen) :
          bash.screen[i] # <<>> /\ bash.screen[i][Len(bash.screen[i])] = " "

(***************************************************************************)
(* The properties of the substitution of environment variables (SpecEnv).  *)
(***************************************************************************)
\* Where the placeholders of a string begin.
Placeholders(s) ==
    { i \in 1..(Len(s) - 2) : s[i] = "${env:" /\ s[i + 1] \in EnvNames /\ s[i + 2] = "}" }

\* The string with the placeholders of the variables in `resolved` replaced
\* by their values in env, each decided on its own, and all else kept.
Replaced(s, env, resolved) ==
    LET at_placeholder(i) == i \in Placeholders(s) /\ s[i + 1] \in resolved
        inside(i) == \E k \in {i - 1, i - 2} : k >= 1 /\ at_placeholder(k)
        RECURSIVE from(_)
        from(i) == IF i > Len(s) THEN <<>>
                   ELSE (IF at_placeholder(i) THEN env[s[i + 1]]
                         ELSE IF inside(i) THEN <<>> ELSE <<s[i]>>) \o from(i + 1)
    IN  from(1)

\* C24: substitute_env_vars replaces a placeholder ${env:VAR} by env[VAR]
\* only if VAR is in the environment given and on the allow-list, and
\* otherwise returns it verbatim; every placeholder of the string is decided
\* on its own in one pass, the values put in are not searched again, and the
\* text outside placeholders is unchanged.
C24_SubstitutionRule ==
    envs.at = "substituted" =>
        envs.substituted = Replaced(envs.s, envs.env, DOMAIN envs.env \cap envs.allowed)

C24_Witness ==
    /\ envs.at = "substituted"
    /\ envs.s = <<"${env:", "HF_TOKEN", "}", "${env:", "SECRET", "}">>
    /\ envs.allowed = {"HF_TOKEN"}
    /\ DOMAIN envs.env = {"HF_TOKEN", "SECRET"}
    /\ envs.env["HF_TOKEN"] = <<"${env:", "SECRET", "}">>
    /\ envs.substituted = <<"${env:", "SECRET", "}", "${env:", "SECRET", "}">>

\* C25: run_function resolves the placeholders of every string-valued
\* argument against the allow-list before the request is transmitted; other
\* argument values, the name and the code are transmitted unchanged; and a
\* variable that is not on the allow-list is never resolved into the
\* request, whatever the environment of the host holds.
C25_OnlyAllowedResolved ==
    envs.at = "transmitted" =>
        /\ envs.transmitted.code = envs.call.code
        /\ envs.transmitted.name = envs.call.name
        /\ DOMAIN envs.transmitted.args = DOMAIN envs.call.args
        /\ \A i \in DOMAIN envs.call.args :
              /\ envs.transmitted.args[i].name = envs.call.args[i].name
              /\ envs.transmitted.args[i].value =
                    IF envs.call.args[i].value.is_str
                    THEN Content(TRUE, Replaced(envs.call.args[i].value.value, envs.env,
                                                DOMAIN envs.env \cap ALLOWED_ENV_VARS))
                    ELSE envs.call.args[i].value

C25_Witness ==
    /\ envs.at = "transmitted"
    /\ DOMAIN envs.env = {"HF_TOKEN", "SECRET"}
    /\ envs.env["SECRET"] = <<"v">>
    /\ envs.env["HF_TOKEN"] = <<"v">>
    /\ envs.s = <<"${env:", "HF_TOKEN", "}", "${env:", "SECRET", "}">>
    /\ envs.transmitted.args[1].value = Content(TRUE, <<"v", "${env:", "SECRET", "}">>)
    /\ envs.transmitted.args[2] = envs.call.args[2]
    /\ envs.transmitted.args[3] = envs.call.args[3]

(***************************************************************************)
(* The properties of the tools of the agents inside make_tool (Spec).      *)
(***************************************************************************)
\* The actions dispatched to the sandbox by the step taken.
Dispatched ==
    IF runtime'.generation = runtime.generation
    THEN { runtime'.requests[i] : i \in (Len(runtime.requests) + 1)..Len(runtime'.requests) }
    ELSE {}

\* C27: during EXPLORE the agent is offered no write_file tool, and whatever
\* the model asks for, no write_file action is dispatched to the sandbox.
C27_ExploreWritesNothing ==
    /\ "write_file" \notin explore_actions
    /\ [][pc = "explore_loop" => "write_file" \notin Dispatched]_vars

C27_Witness ==
    /\ phase = "EXPLORE"
    /\ error = "KeyError"
    /\ runtime.requests = <<"read_file">>

\* C28: during DIAGNOSE no action whose side-effect flag is set (write_file,
\* run_bash_command, google_drive_download_file) is dispatched to the
\* sandbox, whatever the model asks for.
C28_DiagnoseReadOnly ==
    [][pc = "diagnose_loop" => Dispatched \cap SideEffectActions = {}]_vars


\* C26: install_repository returns only when the path the agent reported is
\* exactly the expected path, the workspace directory joined with the
\* repository name without its owner; for every other reported path it
\* raises RuntimeError, and whenever it raises it returns no record.
C26_InstallPathChecked ==
    LET expected == get_local_install_path(install.repo)
        answered == install.response # NoPath
    IN  /\ install.at = "returned" =>
              /\ install.response = expected
              /\ install.result = install.response
        /\ install.at = "raised" => install.result = NoPath
        /\ (install.at \in {"returned", "raised"} /\ answered /\ install.response # expected) =>
              /\ install.at = "raised"
              /\ install.error = "RuntimeError"
        /\ (install.at = "raised" /\ install.error = "RuntimeError") =>
              /\ answered
              /\ install.response # expected

\* The agent reported the expected path with a trailing "/": fatal.
C26_Witness ==
    /\ install.repo = <<"r", "/", "r">>
    /\ install.response = <<"/", "w", "/", "r", "/">>
    /\ install.at = "raised"
    /\ install.error = "RuntimeError"
    /\ install.result = NoPath


\* The error type and the interval the file configures for the model's path.
ConfiguredError == IF retries.model = "o3-mini" THEN "APIError" ELSE "RateLimitError"
ConfiguredWait == IF retries.model = "o3-mini" THEN 2 ELSE 60
Wrapped == retries.model \in {"o3-mini", "claude"}

\* The exceptions after which another attempt was made.
Retried ==
    IF retries.at = "raised" THEN SubSeq(retries.raised, 1, Len(retries.raised) - 1)
    ELSE retries.raised

\* C29: a wrapped completion call is attempted at most 3 times, is retried
\* only after the configured provider error, waits the configured fixed
\* interval before each further attempt, and lets the error out after the
\* third failed attempt; any other exception gets out on the first attempt.
C29_BoundedFixedRetry ==
    Wrapped =>
        /\ retries.attempts <= 3
        /\ \A i \in DOMAIN Retried : Retried[i] = ConfiguredError
        /\ \A i \in DOMAIN retries.waits : retries.waits[i] = ConfiguredWait
        /\ Len(retries.raised) = 3 => retries.at = "raised"
        /\ (retries.raised # <<>> /\ retries.raised[Len(retries.raised)] # ConfiguredError) =>
              /\ retries.at = "raised"
              /\ retries.error = retries.raised[Len(retries.raised)]


\* C30: once an error is raised inside make_tool, nothing but the finally
\* clause runs: the error stays the one raised, no phase is entered, no
\* iteration starts, no model call and no sandbox request is made, and no
\* FunctionCall is returned.
C30_FatalErrorsPropagate ==
    [][error # "None" =>
          /\ pc \in {"finally", "done"}
          /\ pc' = "done"
          /\ error' = error
          /\ result = None
          /\ result' = None
          /\ phase' = phase
          /\ iteration' = iteration
          /\ counts' = counts
          /\ model_call' = model_call
          /\ state' = state
          /\ code' = code
          /\ runtime'.requests = runtime.requests
          /\ runtime'.generation = runtime.generation]_vars

\* The agent run of DIAGNOSE used up its steps in the first iteration:
\* make_tool ended with that error, after the finally clause.
C30_Witness ==
    /\ pc = "done"
    /\ error = "AgentExhaustedError"
    /\ phase = "DIAGNOSE"
    /\ iteration = 0
    /\ max_iterations = 2
    /\ runtime.stops = 3
    /\ result = None


\* The reads exempt from truncation: ReadFile on a path whose suffix is
\* .md, .py or .ipynb.
ExemptRead ==
    /\ acting.action.action = "read_file"
    /\ path_suffix(acting.action.path) \in {<<".", "md">>, <<".", "py">>, <<".", "ipynb">>}

\* C31: for an exempt read the tool message and the audit trail carry the
\* observation as the sandbox returned it, whatever its length; for every
\* other action an observation whose content is longer than 15000 characters
\* is replaced in both by its truncated form, and a shorter one is kept.
C31_TruncationExemption ==
    acting.at = "appended" =>
        LET appended == acting.actions[1][2]
            long == Len(content_text(acting.returned)) > 15000
        IN  /\ Len(acting.actions) = 1 /\ Len(acting.messages) = 1
            /\ acting.actions[1][1] = acting.action
            /\ acting.messages[1].role = "tool"
            /\ acting.messages[1].content = model_dump_json(appended)
            /\ (ExemptRead \/ ~long) => appended = acting.returned
            /\ (~ExemptRead /\ long) =>
                  /\ appended.content.is_str
                  /\ appended.content.value[1] = "NOTE: truncated because its length ("
                  /\ appended # acting.returned
                  /\ appended.content.value =
                        truncate_str(content_text(acting.returned), 15000)

\* A Python file of 15001 characters was read: appended as it is.
C31_Witness ==
    /\ acting.at = "appended"
    /\ acting.action = [action |-> "read_file", path |-> <<"a", ".", "py">>]
    /\ Len(acting.returned.content.value) = 15001
    /\ acting.actions = << <<acting.action, acting.returned>> >>
    /\ acting.messages[1].content = model_dump_json(acting.returned)


\* The answer of function_call_error_handler to a FunctionCallError with the
\* message m.
HandlerAnswer(m) == Response(500, Json([content |-> "An error occurred", error |-> m]))

\* C32: when the action of a call raised FunctionCallError in the sandbox,
\* the agent appends for that call a FunctionCallErrorObservation whose
\* error is the exception's message, as the tool message of the call and in
\* the audit trail, nothing is raised, and the loop is where it takes the
\* next call.
C32_ErrorObservationContinues ==
    [][\A m \in ErrorMessages :
          (/\ pc = "client"
           /\ http_response = HandlerAnswer(m)
           /\ acting' # acting)
          => LET n == Len(acting.actions)
                 observation == acting'.actions[n + 1][2]
                 message == acting'.messages[n + 1]
             IN  /\ Len(acting'.actions) = n + 1
                 /\ Len(acting'.messages) = n + 1
                 /\ SubSeq(acting'.actions, 1, n) = acting.actions
                 /\ SubSeq(acting'.messages, 1, n) = acting.messages
                 /\ acting'.actions[n + 1][1] = ActionOf(http_request.action)
                 /\ observation.kind = "FunctionCallErrorObservation"
                 /\ observation.fields["error"] = m
                 /\ message.role = "tool"
                 /\ message.tool_call_id = http_request.calls
                 /\ message.content = model_dump_json(observation)
                 /\ acting'.at = "loop"
                 /\ pc' = "client"
                 /\ Len(acting'.actions) = http_request'.calls]_vars

\* A read of a missing file was answered with the error observation, and
\* the next call of the same message was executed after it.
C32_Witness ==
    /\ Len(acting.actions) = 2
    /\ acting.actions[1][2].kind = "FunctionCallErrorObservation"
    /\ acting.actions[1][2].fields["error"] = "File not found"
    /\ acting.messages[1].content = model_dump_json(acting.actions[1][2])
    /\ acting.actions[2][2].kind = "FileReadObservation"
    /\ acting.at = "loop"


RECURSIVE SplitLines(_)
\* The lines of a text.
SplitLines(s) ==
    LET breaks == { i \in DOMAIN s : s[i] = "\n" }
    IN  IF breaks = {} THEN <<s>>
        ELSE LET k == CHOOSE i \in breaks : \A j \in breaks : i <= j
             IN  <<SubSeq(s, 1, k - 1)>> \o SplitLines(SubSeq(s, k + 1, Len(s)))

\* The lines of a script the shell executes: neither empty nor a comment.
ExecutableLines(s) ==
    SelectSeq(SplitLines(s),
              LAMBDA l : l # <<>> /\ l[1] \notin {"# Step ", "# ", "# observation: "})

RECURSIVE Replayed(_)
\* The command lines of the side-effecting actions of a trail, in order.
Replayed(actions) ==
    IF actions = <<>> THEN <<>>
    ELSE (IF actions[1][1].action \in SideEffectActions
          THEN SelectSeq(SplitLines(actions[1][1].argument), LAMBDA l : l # <<>>)
          ELSE <<>>)
            \o Replayed(Tail(actions))

\* The numbers of the "# Step" headers of a script, in order.
StepHeaders(s) ==
    LET at == SelectSeq([i \in DOMAIN s |-> i], LAMBDA i : s[i] = "# Step ")
    IN  [k \in DOMAIN at |-> s[at[k] + 1]]

\* C33: the install script holds one rendering per pair of the audit trail,
\* in execution order, and the lines it executes are exactly the commands
\* of the side-effecting actions, in their order: the command of every
\* other action is commented out.
C33_ScriptReplaysSideEffects ==
    rendering.at = "written" =>
        /\ StepHeaders(rendering.script) =
              [k \in DOMAIN rendering.actions |-> ToString(k - 1)]
        /\ ExecutableLines(rendering.script) = Replayed(rendering.actions)


\* C34: whenever make_tool has ended, by a return or by an error of any
\* phase, the sandbox it obtained last from reset_runtime() has been stopped.
C34_SandboxStoppedOnExit ==
    (pc = "done" /\ phase # "INIT") => runtime.stops >= 1


\* The requests of kind `run` a sandbox has received since it was obtained.
RunsIn(rt) == {i \in 1..Len(rt.requests) : rt.requests[i] = "run"}

\* C35: the candidate executed in the first iteration is the code of IMPLEMENT
\* and the one executed in a later iteration is the code REWRITE made in the
\* iteration before; there is one execution per iteration, so no candidate is
\* executed twice; and while DIAGNOSE works, the sandbox it talks to is the one
\* that received this iteration's execution as its first request.
C35_CandidateLineage ==
    /\ pc \in {"assess", "diagnose", "diagnose_loop"} =>
          /\ function = FunctionCall(IF iteration = 0 THEN Code(-1)
                                                      ELSE Code(iteration - 1))
          /\ counts["EXECUTE"] = iteration + 1
          /\ output.iter = iteration
    /\ pc \in {"diagnose", "diagnose_loop"} =>
          /\ assessment = FunctionExecutionAssessment(FALSE, iteration)
          /\ RunsIn(runtime) = {1}

\* C35: DIAGNOSE of the second iteration has sent a request to the sandbox in
\* which the code REWRITE made in the first iteration has failed.
C35_Witness ==
    /\ pc = "diagnose_loop"
    /\ iteration = 1
    /\ function.code = Code(0)
    /\ Len(runtime.requests) >= 2


\* What one LLM.completion call does to the accumulated cost, whatever the
\* outcomes that may charge: the total does not decrease, only the entry of
\* the called model changes, a refused call and a provider failure charge
\* nothing, a charge comes with an outcome of `charging`, and above MAX_COST
\* the call is refused without a provider call.
CostAccounting(charging) ==
    LLMCompletion =>
        /\ total_cost(cost') >= total_cost(cost)
        /\ \A m \in Models : m # llm_last'.model => cost'[m] = cost[m]
        /\ llm_last'.outcome \in {"CostLimitExceeded", "ProviderError"} => cost' = cost
        /\ total_cost(cost') > total_cost(cost) => llm_last'.outcome \in charging
        /\ total_cost(cost) > MAX_COST =>
              /\ llm_last'.outcome = "CostLimitExceeded"
              /\ ~llm_last'.dispatched
              /\ providerCalls' = providerCalls

\* C36, as stated: the accumulated total cost never decreases, grows only by
\* the cost of a completion call that returned, is left alone by a provider
\* failure, and once above MAX_COST every later call is refused.
C36_CostGrowsOnlyOnReturn == [][CostAccounting({"ok"})]_vars

\* C36, amended: the total also grows by the cost of a typed call whose answer
\* the provider returned and the parsing then rejected, which raises.
C36_CostGrowsOnlyOnProviderAnswer == [][CostAccounting({"ok", "ValidationError"})]_vars

\* C36: the total is above MAX_COST and the call after that has been refused.
C36_Witness ==
    /\ total_cost(cost) > MAX_COST
    /\ llm_last.total_before = total_cost(cost)
    /\ llm_last.outcome = "CostLimitExceeded"
    /\ llm_last.prompt_cost = 0


\* C37: the /run handler removes the output file before the function runner
\* starts: a result of status "success" carries the value the runner of this
\* request has written, and when this runner has written nothing there is no
\* output file behind the handler and no "success", whatever file an earlier
\* run has left.
C37_NoStaleResult ==
    Served =>
        /\ IsResult("success") =>
              /\ WellFormed(process.wrote)
              /\ output_file = process.wrote
              /\ http_response.text.fields["result"] = output_file.text.fields["result"]
        /\ ~process.wrote.exists => (output_file = NoFile /\ ~IsResult("success"))

\* C37: a run has answered "success" with its own value while an earlier run
\* had left a well-formed output file holding another value.
C37_Witness ==
    /\ Served
    /\ IsResult("success")
    /\ WellFormed(process.stale)
    /\ process.stale.text.fields["result"] # http_response.text.fields["result"]
    /\ http_response.text.fields["result"] = process.wrote.text.fields["result"]


\* C38: run_function substitutes in copies: the FunctionCall the caller holds
\* and its argument objects are, after the request has been posted, what they
\* were before; the posted object is another one; and the FunctionCall
\* make_tool returns holds the text the caller wrote, placeholders included,
\* whatever the environment of the host.
C38_CallerKeepsPlaceholders ==
    /\ envs.at \in {"transmitted", "returned"} =>
          /\ model_dump(envs.objects, envs.held) = envs.call
          /\ envs.posted # envs.held
          /\ \A i \in 1..3 : envs.objects[i] = envs.call.args[i]
          /\ \A i \in 1..3 : envs.objects[envs.posted].args[i] \notin 1..3
          /\ envs.transmitted = model_dump(envs.objects, envs.posted)
    /\ envs.at = "returned" => envs.kept = envs.call

\* C38: the request has carried the value of HF_TOKEN and the FunctionCall
\* returned afterwards holds the placeholder.
C38_Witness ==
    /\ envs.at = "returned"
    /\ "HF_TOKEN" \in DOMAIN envs.env
    /\ envs.env["HF_TOKEN"] = <<"v">>
    /\ envs.transmitted.args[1].value = Content(TRUE, <<"v">>)
    /\ envs.kept.args[1].value = Content(TRUE, <<"${env:", "HF_TOKEN", "}">>)
    /\ envs.kept.args[3].value = Content(TRUE, <<"${env:", "SECRET", "}">>)


\* The requests whose handler has returned or raised.
Handled == { r \in 1..MaxArrivals : arrivals[r].at \in {"returned", "raised"} }

\* C39: the lock is held exactly while a handler is in progress, so it is
\* free again when a handler has returned or raised; a waiter is admitted only
\* from the head of the queue; and on an event loop whose handlers terminate
\* every request that has arrived, /alive included, is eventually handled,
\* whatever the requests before it did.
C39_EveryRequestHandled ==
    /\ [](locked <=> InProgress # {})
    /\ [][\A r \in 1..MaxArrivals :
             (arrivals[r].at = "waiting" /\ arrivals'[r].at = "handler")
                => (r = Head(waiters) /\ InProgress = {})]_vars
    /\ \A r \in 1..MaxArrivals :
          (arrivals[r].at \in {"waiting", "handler"}) ~> (r \in Handled)

\* C39: an /alive probe that had to wait has been answered after the handler
\* of the request before it raised.
C39_Witness ==
    \E r, q \in 1..MaxArrivals :
       /\ arrivals[r].at = "raised"
       /\ arrivals[q].endpoint = "alive" /\ arrivals[q].waited
       /\ arrivals[q].at = "returned"
       /\ \E i \in 1..Len(log) - 1 :
             /\ log[i] = [event |-> "finish", request |-> r]
             /\ log[i + 1] = [event |-> "start", request |-> q]


(***************************************************************************)
(* The property of run_tool's cache (SpecRunTool).                         *)
(***************************************************************************)
\* The run directory run_tool uses for the arguments of the calls, and
\* whether the folder found held a result for it.
KeyOfRun ==
    RunDir(caching.tool,
           IF caching.installed = "None" THEN caching.found.task_name ELSE caching.installed,
           caching.invocation)

WasCached == KeyOfRun \in DOMAIN caching.found.results

\* C40: run_tool answers from the result record of the run key when there is
\* one, creating no sandbox and executing nothing; without one it raises
\* when must_be_cached is set, creating no sandbox; otherwise, unless
\* run_function raises, it creates a sandbox, executes the function once,
\* writes the result with output_path and elapsed, stops the sandbox and
\* returns the record, and a second call with the same arguments returns
\* that record without a sandbox; and is_run_cached with the same arguments
\* is true exactly when run_tool takes the cached path.
C40_RunToolCaches ==
    /\ caching.at = "asked" => (caching.reported <=> WasCached)
    /\ Len(caching.calls) >= 1 =>
          LET first == caching.calls[1]
          IN  /\ WasCached =>
                    /\ first.raised = "None"
                    /\ first.returned = caching.found.results[KeyOfRun]
                    /\ first.created = 0 /\ first.executed = 0
                    /\ first.folder = caching.found
              /\ (~WasCached /\ caching.must_be_cached) =>
                    /\ first.raised = "RuntimeError"
                    /\ first.created = 0 /\ first.executed = 0
              /\ (~WasCached /\ ~caching.must_be_cached /\ first.raised # "ValidationError") =>
                    /\ first.raised = "None"
                    /\ first.created = 1 /\ first.executed = 1 /\ first.stopped = 1
                    /\ KeyOfRun \in DOMAIN first.folder.results
                    /\ first.folder.results[KeyOfRun] = first.returned
                    /\ DOMAIN first.returned = {"status", "output_path", "elapsed"}
                    /\ Len(caching.calls) = 2 =>
                          /\ caching.calls[2].returned = first.returned
                          /\ caching.calls[2].created = 0
                          /\ caching.calls[2].executed = 0
====
